---- MODULE Spec2Model ----
(***************************************************************************)
(* Model of the event processor (packages/processor), the storage adapters *)
(* (packages/storage: DSQLAdapter, ClickHouseAdapter) and the Kinesis      *)
(* event source that drives the processor.                                 *)
(*                                                                         *)
(* Conventions.  A JavaScript string-or-nullish value is a string, with    *)
(* NULL standing for both null and undefined.  A nullish value of any      *)
(* other type (number, object, Date) is the empty tuple None, a present    *)
(* one the one-element tuple Some(v); the properties column, a JSON text   *)
(* or null, is such a value too.  Time is counted in ticks: TicksPerHour   *)
(* ticks make an hour and HoursPerDay hours a calendar day; a calendar     *)
(* date is the number of its day.                                          *)
(***************************************************************************)
EXTENDS Integers, Sequences, FiniteSets, TLC

NULL == "NULL"
None == << >>
Some(v) == << v >>

\* ------------------------------------------------------------------ bounds
MaxBatch == 2
MaxFaults == 1
MaxClock == 1
TicksPerHour == 2
HoursPerDay == 2
NumDays == 2
MaxRows == 2
MaxCalls == 4
MaxInits == 2
MaxOutbox == 4
TicksPerDay == HoursPerDay * TicksPerHour

\* ------------------------------------------------------ program constants
PoolMax == 3
RetryAttempts == 3
DefaultLimit == 20
BrowserOsLimit == 10

\* --------------------------------------------------------------- JS values
\* JavaScript's `a || b` on strings: the empty string and null/undefined are falsy.
StrOr(a, b) == IF a = NULL \/ a = "" THEN b ELSE a

\* `new Date(ms)`: a Date holds its epoch value; `new Date(undefined)` is an
\* Invalid Date.
InvalidDate == [valid |-> FALSE, ms |-> 0]
NewDate(ts) == IF ts = None THEN InvalidDate ELSE [valid |-> TRUE, ms |-> ts[1]]

\* A parsed JSON object is a sequence of <<key, value>> pairs in insertion
\* order; a value is a JSON string JStr(s) or a JSON number JNum(n).
JStr(s) == << "str", s >>
JNum(n) == << "num", n >>

\* JSON.stringify of a parsed object: the serialized text of the object.
JSONStringify(obj) == [text |-> obj]
JSONParse(str) == str.text

\* Property lookup obj[key] on a parsed object: None when the key is missing.
RECURSIVE Prop(_, _)
Prop(obj, key) ==
  IF obj = << >> THEN None
  ELSE IF Head(obj)[1] = key THEN Some(Head(obj)[2])
  ELSE Prop(Tail(obj), key)

\* A JSON value read as a JavaScript string-or-nullish value.
AsString(v) ==
  IF v = None THEN NULL
  ELSE IF v[1][1] = "str" THEN v[1][2]
  ELSE ToString(v[1][2])

\* The numerals of the model and the number a text denotes, None if none.
Numerals == 0..9
ParseNumber(text) ==
  IF \E n \in Numerals : ToString(n) = text
  THEN Some(CHOOSE n \in Numerals : ToString(n) = text)
  ELSE None

\* ------------------------------------------------------------- user agents
\* UAParser(userAgent).getResult() for the user-agent strings of the model.
UAParse(ua) ==
  CASE ua = "UA_CHROME_MAC" ->
         [browser |-> "Chrome", browserVersion |-> "120", os |-> "Mac OS",
          osVersion |-> "10.15", device |-> NULL]
    [] ua = "UA_SAFARI_IPHONE" ->
         [browser |-> "Mobile Safari", browserVersion |-> "17", os |-> "iOS",
          osVersion |-> "17", device |-> "mobile"]
    [] OTHER ->
         [browser |-> NULL, browserVersion |-> NULL, os |-> NULL,
          osVersion |-> NULL, device |-> NULL]

\* ------------------------------------------------------------ raw payloads
\* A Kinesis record's data after Buffer.from(...).toString('utf-8'):
\*   json = "invalid"  text that JSON.parse rejects
\*   json = "null"     the JSON text `null`
\*   json = "object"   a JSON object with the fields below
\* properties is None (absent) or Some(object); context likewise.
NoPage == [url |-> NULL, title |-> NULL, path |-> NULL, referrer |-> NULL]
NoContext ==
  [page |-> None, userAgent |-> NULL, locale |-> NULL, screen |-> None,
   ip |-> NULL, receivedAt |-> None, geo |-> None]

Payload(pid, ty, ts) ==
  [json |-> "object", projectId |-> pid, eventType |-> ty, timestamp |-> ts,
   sessionId |-> "s1", userId |-> NULL, anonymousId |-> "a1",
   eventId |-> None, properties |-> None, context |-> None]

InvalidJson == [Payload(NULL, NULL, None) EXCEPT !.json = "invalid"]
JsonNull == [Payload(NULL, NULL, None) EXCEPT !.json = "null"]
GoodPageview == Payload("p1", "pageview", Some(1))
GoodClick ==
  [Payload("p1", "click", Some(2)) EXCEPT
     !.eventId = << "client", 1 >>,
     !.properties = Some(<< <<"path", JStr("/b")>>, <<"button", JStr("signup")>> >>),
     !.context = Some([NoContext EXCEPT
                         !.page = Some([NoPage EXCEPT !.path = "/a"]),
                         !.userAgent = "UA_CHROME_MAC",
                         !.receivedAt = Some(3)])]
NoProjectId == Payload(NULL, "pageview", Some(1))
NoEventType == Payload("p1", NULL, Some(1))
NoTimestamp == Payload("p1", "pageview", None)

PayloadUniverse == {InvalidJson, JsonNull, GoodPageview, GoodClick, NoProjectId}

\* The ids a client can put in a payload.
ClientIds == {p.eventId : p \in PayloadUniverse} \ {None}

\* -------------------------------------------------------------- normalizer
\* Optional chaining on the context: event.context?.X
CtxStr(event, f) == IF event.context = None THEN NULL ELSE event.context[1][f]
CtxOpt(event, f) == IF event.context = None THEN None ELSE event.context[1][f]
\* event.context?.page?.X
PageStr(event, f) ==
  IF CtxOpt(event, "page") = None THEN NULL ELSE CtxOpt(event, "page")[1][f]
\* event.properties?.X
PropStr(event, f) ==
  IF event.properties = None THEN NULL ELSE AsString(Prop(event.properties[1], f))

\* randomUUID(): the n-th identifier drawn by this process.  An identifier is a
\* tagged pair; a payload's own eventId field, which the transform never reads,
\* is None or a pair tagged "client".
\* A generator that hands out the same identifier every time.
RandomUUIDConstant(n) == << "uuid", 0 >>

RandomUUID(n) == << "uuid", n >>

\* A transform that keeps the identifier the client sent, when it sent one.
EventIdFromClient(event, uuid) == IF event.eventId # None THEN event.eventId ELSE uuid

\* A transform that derives the identifier from the payload, so that a
\* redelivered record gets the identifier it had before.
EventIdOfPayload(event, uuid) == << "key", event.projectId, event.eventType >>

\* `event_id: randomUUID()`
EventId(event, uuid) == uuid

\* JSON.parse(payload): throws on invalid text.
ParseThrows(p) == p.json = "invalid"
\* A transform that reads the event through optional chaining and so makes a
\* row of nulls out of the JSON value null.
TransformThrowsNever(p) == FALSE

\* transformToDatabaseEvent throws only where it dereferences the event itself:
\* `event.context` on the value null is a TypeError.
TransformThrows(p) == p.json = "null"

transformToDatabaseEvent(event, uuid, now) ==
  LET userAgent == StrOr(CtxStr(event, "userAgent"), NULL)
      parsed == UAParse(userAgent)
      hasUA == userAgent # NULL
      screen == CtxOpt(event, "screen")
      geo == CtxOpt(event, "geo")
  IN [event_id |-> EventId(event, uuid),
      project_id |-> event.projectId,
      event_type |-> event.eventType,
      event_time |-> NewDate(event.timestamp),
      session_id |-> StrOr(event.sessionId, NULL),
      user_id |-> StrOr(event.userId, NULL),
      anonymous_id |-> StrOr(event.anonymousId, NULL),
      page_url |-> StrOr(PageStr(event, "url"), StrOr(PropStr(event, "url"), NULL)),
      page_title |->
        StrOr(PageStr(event, "title"), StrOr(PropStr(event, "title"), NULL)),
      page_path |-> StrOr(PageStr(event, "path"), StrOr(PropStr(event, "path"), NULL)),
      page_referrer |->
        StrOr(PageStr(event, "referrer"), StrOr(PropStr(event, "referrer"), NULL)),
      user_agent |-> userAgent,
      browser_name |-> IF hasUA THEN StrOr(parsed.browser, NULL) ELSE NULL,
      browser_version |-> IF hasUA THEN StrOr(parsed.browserVersion, NULL) ELSE NULL,
      os_name |-> IF hasUA THEN StrOr(parsed.os, NULL) ELSE NULL,
      os_version |-> IF hasUA THEN StrOr(parsed.osVersion, NULL) ELSE NULL,
      device_type |-> IF hasUA THEN StrOr(parsed.device, "desktop") ELSE NULL,
      screen_width |->
        IF screen = None \/ screen[1].width = 0 THEN None ELSE Some(screen[1].width),
      screen_height |->
        IF screen = None \/ screen[1].height = 0 THEN None ELSE Some(screen[1].height),
      country |-> IF geo = None THEN NULL ELSE StrOr(geo[1].country, NULL),
      city |-> IF geo = None THEN NULL ELSE StrOr(geo[1].city, NULL),
      region |-> IF geo = None THEN NULL ELSE StrOr(geo[1].region, NULL),
      ip_address |-> StrOr(CtxStr(event, "ip"), NULL),
      locale |-> StrOr(CtxStr(event, "locale"), NULL),
      properties |->
        IF event.properties # None
        THEN Some(JSONStringify(event.properties[1])) ELSE None,
      received_at |->
        IF CtxOpt(event, "receivedAt") # None /\ CtxOpt(event, "receivedAt")[1] # 0
        THEN NewDate(CtxOpt(event, "receivedAt"))
        ELSE NewDate(Some(now))]

\* ------------------------------------------------------------- DSQL schema
\* The columns of CREATE TABLE events.
SchemaColumns ==
  {"project_id", "event_type", "event_time", "session_id", "user_id",
   "anonymous_id", "page_url", "page_title", "page_path", "page_referrer",
   "user_agent", "browser_name", "browser_version", "os_name", "os_version",
   "device_type", "screen_width", "screen_height", "country", "city", "region",
   "ip_address", "locale", "properties", "received_at"}

\* The events table as the specification describes it: one wide table keyed by
\* eventId.  (The script that creates the table, init-schema.ts, is not part of
\* the sources at hand.)
KeyedColumns == SchemaColumns \cup {"event_id"}

\* The columns named by the INSERT statement of DSQLAdapter.insertEvents.
InsertColumns ==
  {"event_id", "project_id", "event_type", "event_time", "session_id", "user_id",
   "anonymous_id", "page_url", "page_title", "page_path", "page_referrer",
   "user_agent", "browser_name", "browser_version", "os_name", "os_version",
   "device_type", "screen_width", "screen_height", "country", "city", "region",
   "ip_address", "locale", "properties", "received_at"}

\* Binding a DatabaseEvent to the statement's parameters: a Date becomes a
\* timestamptz (its epoch value), the properties text is parsed into JSONB, every
\* other value is passed as it is (undefined and null both become SQL NULL).
SqlValue(e, c) ==
  CASE c = "event_time" -> e.event_time.ms
    [] c = "received_at" -> e.received_at.ms
    [] c = "properties" ->
         IF e.properties = None THEN None ELSE Some(JSONParse(e.properties[1]))
    [] OTHER -> e[c]

\* The SQLSTATE one INSERT of the batch ends with on a table with the columns
\* cols ("00000": the row is accepted).  The statement is analysed before its
\* parameters are bound, and bound before the constraints are checked:
\*   42703 undefined_column, 22007 invalid_datetime_format (an Invalid Date),
\*   23502 not_null_violation (project_id, event_type: NOT NULL).
InsertSqlState(e, cols) ==
  IF ~(InsertColumns \subseteq cols) THEN "42703"
  ELSE IF ~e.event_time.valid \/ ~e.received_at.valid THEN "22007"
  ELSE IF e.project_id = NULL \/ e.event_type = NULL THEN "23502"
  ELSE "00000"

\* The row the table holds for an accepted INSERT.
StoredRow(e, cols) == [c \in cols |-> SqlValue(e, c)]

\* ------------------------------------------------------ ClickHouse mapping
\* The object ClickHouseAdapter.insertEvents sends for an event: the same
\* fields, with event_time under the name timestamp.
ChRow(e) ==
  [c \in (InsertColumns \ {"event_time"}) \cup {"timestamp"} |->
     IF c = "timestamp" THEN e.event_time.ms
     ELSE IF c = "received_at" THEN e.received_at.ms
     ELSE IF c = "properties" THEN e.properties
     ELSE e[c]]

\* ------------------------------------------------------------------- state
VARIABLES
  tableColumns,   \* the columns of the deployed DSQL events table
  events,         \* DSQL events table: the committed rows, in commit order
  chEvents,       \* ClickHouse events table
  chResult,       \* last ClickHouseAdapter.insertEvents call: None or Some([rows, failed])
  queue,          \* Kinesis event source: work items [recs, retries] awaiting the function
  delivered,      \* the stream has handed its batch to the event source
  discarded,      \* records the event source gave up on
  pc,             \* position of the processor invocation
  records,        \* event.Records of the running invocation
  idx,            \* index of the next record of the for loop
  databaseEvents, \* rows accumulated by the loop
  logged,         \* 'Failed to parse record' log entries of the invocation
  result,         \* outcome of the last invocation: "none", "success", "failure"
  storage,        \* the module-level `storage` of @analytics/storage
  created,        \* adapters constructed by getStorage so far
  checkedOut,     \* connections checked out of the pool
  staged,         \* rows inserted in the open transaction
  k,              \* index of the next row of insertEvents' loop
  err,            \* the error being thrown, "none" if none
  rowFailed,      \* index of the row whose INSERT failed in this call, 0 if none
  insertCalls,    \* insertEvents calls of the running invocation
  eventsAtStart,  \* the table when the invocation started
  submitted,      \* the event_id of every row ever passed to insertEvents, in order
  nextId,         \* number of UUIDs drawn
  clock,          \* server time
  faults,         \* backend faults injected so far
  op,             \* last read operation, "none" if none
  filter,         \* its QueryFilters
  limit,          \* its limit argument
  res,            \* its result
  issued,         \* storage reads issued by the running query call
  trackerBuild,   \* which tracker script the page loaded
  doNotTrack,     \* the browser's Do Not Track setting
  isInitialized,  \* ProductAnalytics.isInitialized
  config,         \* ProductAnalytics.config: NULL or the config given to init
  wrappers,       \* wrappers installed around history.pushState / replaceState,
                  \* and popstate listeners added (init installs one of each)
  outbox,         \* event types handed to fetch, in order
  lastCall,       \* the last tracker call or navigation, and what it sent
  operations,     \* DSQL adapter calls in progress on the shared pool
  connections     \* the pool's connections: who holds each, queries pending on it

ingestVars ==
  << tableColumns, events, chEvents, chResult, queue, delivered, discarded, pc,
     records, idx, databaseEvents, logged, result, storage, created, checkedOut,
     staged, k, err, rowFailed, insertCalls, eventsAtStart, submitted, nextId,
     clock, faults >>
readVars == << op, filter, limit, res, issued >>
trackerVars ==
  << trackerBuild, doNotTrack, isInitialized, config, wrappers, outbox, lastCall >>
poolVars == << operations, connections >>
vars == << ingestVars, readVars, trackerVars, poolVars >>

\* The page has loaded the tracker script: `new ProductAnalytics()`.
NoCall == [name |-> "none", sent |-> << >>]
TrackerLoaded(build, dnt) ==
  /\ trackerBuild = build
  /\ doNotTrack = dnt
  /\ isInitialized = FALSE
  /\ config = NULL
  /\ wrappers = 0
  /\ outbox = << >>
  /\ lastCall = NoCall

\* `new AuroraDSQLPool({max: 3, ...})`: no connection is checked out, and no
\* adapter call is in progress.
Calls == 1..MaxCalls
NoOperation ==
  [kind |-> "none", pc |-> "none", conn |-> 0, acquired |-> 0, released |-> 0]
\* An idle connection: nobody holds it, no query of a holder is pending on it,
\* and no query left behind by an earlier holder.
IdleConnection == [owner |-> 0, pending |-> 0, stray |-> 0]
PoolCreated ==
  /\ operations = [o \in Calls |-> NoOperation]
  /\ connections = [c \in 1..PoolMax |-> IdleConnection]

\* A query may fail for a reason outside the program (backend unavailable,
\* timeout) while the fault budget lasts.
FaultChoices == IF faults < MaxFaults THEN {FALSE, TRUE} ELSE {FALSE}

Batches == UNION {[1..n -> PayloadUniverse] : n \in 1..MaxBatch}

NoFilter == [projectId |-> NULL]

Init ==
  /\ tableColumns \in {SchemaColumns, KeyedColumns}
  /\ events = << >>
  /\ chEvents = << >>
  /\ chResult = None
  /\ queue = << >>
  /\ delivered = FALSE
  /\ discarded = << >>
  /\ pc = "idle"
  /\ records = << >>
  /\ idx = 1
  /\ databaseEvents = << >>
  /\ logged = 0
  /\ result = "none"
  /\ storage = "null"
  /\ created = 0
  /\ checkedOut = 0
  /\ staged = << >>
  /\ k = 1
  /\ err = "none"
  /\ rowFailed = 0
  /\ insertCalls = 0
  /\ eventsAtStart = << >>
  /\ submitted = << >>
  /\ nextId = 0
  /\ clock = 0
  /\ faults = 0
  /\ op = "none"
  /\ filter = NoFilter
  /\ limit = 0
  /\ res = << >>
  /\ issued = 0
  /\ TrackerLoaded("jwt", FALSE)
  /\ PoolCreated

\* ------------------------------------------------------ Kinesis event source
\* The stream hands the event source a batch of records.  The model follows one
\* batch from its delivery through every retry of it.
Deliver(batch) ==
  /\ pc = "idle"
  /\ queue = << >>
  /\ chResult = None
  /\ ~delivered
  /\ queue' = << [recs |-> batch, retries |-> 0] >>
  /\ delivered' = TRUE
  /\ UNCHANGED << tableColumns, events, chEvents, chResult, discarded, pc, records,
                  idx, databaseEvents, logged, result, storage, created,
                  checkedOut, staged, k, err, rowFailed, insertCalls,
                  eventsAtStart, submitted, nextId, clock, faults, readVars, trackerVars, poolVars >>

\* The event source invokes the function with the work item at the head.
Invoke ==
  /\ pc = "idle"
  /\ queue # << >>
  /\ pc' = "loop"
  /\ records' = Head(queue).recs
  /\ idx' = 1
  /\ databaseEvents' = << >>
  /\ logged' = 0
  /\ result' = "none"
  /\ err' = "none"
  /\ rowFailed' = 0
  /\ insertCalls' = 0
  /\ eventsAtStart' = events
  /\ UNCHANGED << tableColumns, events, chEvents, chResult, queue, delivered,
                  discarded, storage, created, checkedOut, staged, k, submitted,
                  nextId, clock, faults, readVars, trackerVars, poolVars >>

\* Server time passes; the program reads it only while it normalizes.
Tick ==
  /\ pc = "loop"
  /\ clock < MaxClock
  /\ clock' = clock + 1
  /\ UNCHANGED << tableColumns, events, chEvents, chResult, queue, delivered,
                  discarded, pc, records, idx, databaseEvents, logged, result,
                  storage, created, checkedOut, staged, k, err, rowFailed,
                  insertCalls, eventsAtStart, submitted, nextId, faults, readVars, trackerVars, poolVars >>

\* ------------------------------------------------------------------ handler
\* One iteration of `for (const record of event.Records)`: decode, parse and
\* transform inside try; the catch logs and goes on.
ProcessRecord ==
  /\ pc = "loop"
  /\ idx <= Len(records)
  /\ LET p == records[idx] IN
       IF ParseThrows(p) \/ TransformThrows(p)
       THEN /\ logged' = logged + 1
            /\ UNCHANGED << databaseEvents, nextId >>
       ELSE /\ databaseEvents' =
                 Append(databaseEvents,
                        transformToDatabaseEvent(p, RandomUUID(nextId), clock))
            /\ nextId' = nextId + 1
            /\ UNCHANGED logged
  /\ idx' = idx + 1
  /\ UNCHANGED << tableColumns, events, chEvents, chResult, queue, delivered,
                  discarded, pc, records, result, storage, created, checkedOut,
                  staged, k, err, rowFailed, insertCalls, eventsAtStart, submitted,
                  clock, faults, readVars, trackerVars, poolVars >>

\* A handler without the early return.
ReturnsEarlyNever(rows) == FALSE

\* `if (databaseEvents.length === 0) return;`
ReturnsEarly(rows) == rows = << >>

\* A getStorage that builds an adapter on every call.
ConstructsAlways(st) == TRUE

\* getStorage: `if (!storage)`, the adapter is built only while the module's
\* variable is unset.
Constructs(st) == st = "null"

\* After the loop: the early return, or getStorage() and the insertEvents call.
AfterLoop ==
  /\ pc = "loop"
  /\ idx > Len(records)
  /\ IF ReturnsEarly(databaseEvents)
     THEN /\ pc' = "done"
          /\ result' = "success"
          /\ UNCHANGED << storage, created, insertCalls, submitted >>
     ELSE /\ pc' = "connect"
          /\ storage' = IF Constructs(storage) THEN "dsql" ELSE storage
          /\ created' = IF Constructs(storage) THEN created + 1 ELSE created
          /\ insertCalls' = insertCalls + 1
          /\ submitted' =
               submitted \o [i \in 1..Len(databaseEvents) |-> databaseEvents[i].event_id]
          /\ UNCHANGED result
  /\ UNCHANGED << tableColumns, events, chEvents, chResult, queue, delivered,
                  discarded, records, idx, databaseEvents, logged, checkedOut,
                  staged, k, err, rowFailed, eventsAtStart, nextId, clock, faults,
                  readVars, trackerVars, poolVars >>

\* ---------------------------------------------------- DSQLAdapter.insertEvents
\* `const client = await this.pool.connect()`: outside the try block.
PoolConnect ==
  /\ pc = "connect"
  /\ \E fault \in FaultChoices :
       IF fault
       THEN /\ err' = "fault:connect"
            /\ faults' = faults + 1
            /\ pc' = "return"
            /\ UNCHANGED checkedOut
       ELSE /\ checkedOut' = checkedOut + 1
            /\ pc' = "begin"
            /\ UNCHANGED << err, faults >>
  /\ UNCHANGED << tableColumns, events, chEvents, chResult, queue, delivered,
                  discarded, records, idx, databaseEvents, logged, result, storage,
                  created, staged, k, rowFailed, insertCalls, eventsAtStart,
                  submitted, nextId, clock, readVars, trackerVars, poolVars >>

\* An insertEvents whose statements run outside a transaction (autocommit).
NoTransaction == FALSE

\* `await client.query('BEGIN')`: the batch runs in one transaction.
UsesTransaction == TRUE

Begin ==
  /\ pc = "begin"
  /\ \E fault \in FaultChoices :
       IF fault
       THEN /\ err' = "fault:begin"
            /\ faults' = faults + 1
            /\ pc' = "rollback"
       ELSE /\ pc' = "insert"
            /\ UNCHANGED << err, faults >>
  /\ staged' = << >>
  /\ k' = 1
  /\ UNCHANGED << tableColumns, events, chEvents, chResult, queue, delivered,
                  discarded, records, idx, databaseEvents, logged, result, storage,
                  created, checkedOut, rowFailed, insertCalls, eventsAtStart,
                  submitted, nextId, clock, readVars, trackerVars, poolVars >>

\* One `await client.query(insertQuery, [...])` of the for loop.  A row inserted
\* inside the transaction is staged; outside a transaction it would be visible
\* at once.
InsertRow ==
  /\ pc = "insert"
  /\ k <= Len(databaseEvents)
  /\ \E fault \in FaultChoices :
       LET e == databaseEvents[k]
           state == IF fault THEN "fault:insert" ELSE InsertSqlState(e, tableColumns)
       IN IF state = "00000"
          THEN /\ IF UsesTransaction
                  THEN /\ staged' = Append(staged, StoredRow(e, tableColumns))
                       /\ UNCHANGED events
                  ELSE /\ events' = Append(events, StoredRow(e, tableColumns))
                       /\ UNCHANGED staged
               /\ k' = k + 1
               /\ UNCHANGED << pc, err, rowFailed, faults >>
          ELSE /\ err' = state
               /\ rowFailed' = k
               /\ faults' = IF fault THEN faults + 1 ELSE faults
               /\ pc' = "rollback"
               /\ UNCHANGED << staged, events, k >>
  /\ UNCHANGED << tableColumns, chEvents, chResult, queue, delivered, discarded,
                  records, idx, databaseEvents, logged, result, storage, created,
                  checkedOut, insertCalls, eventsAtStart, submitted, nextId, clock,
                  readVars, trackerVars, poolVars >>

\* A COMMIT that empties the table before it stores the transaction's rows.
CommittedOverwriting(T, rows) == rows

\* The table after the COMMIT of a transaction of INSERTs: the rows the table
\* held, unchanged, followed by the transaction's rows.
Committed(T, rows) == T \o rows

\* `await client.query('COMMIT')` after the last row.  When the COMMIT fails
\* the client cannot tell whether the server had applied it: both outcomes occur.
Commit ==
  /\ pc = "insert"
  /\ k > Len(databaseEvents)
  /\ \E fault \in FaultChoices :
       IF fault
       THEN /\ err' = "fault:commit"
            /\ faults' = faults + 1
            /\ pc' = "rollback"
            /\ \E applied \in BOOLEAN :
                 events' = IF applied THEN Committed(events, staged) ELSE events
            /\ staged' = << >>
       ELSE /\ events' = Committed(events, staged)
            /\ staged' = << >>
            /\ pc' = "release"
            /\ UNCHANGED << err, faults >>
  /\ UNCHANGED << tableColumns, chEvents, chResult, queue, delivered, discarded,
                  records, idx, databaseEvents, logged, result, storage, created,
                  checkedOut, k, rowFailed, insertCalls, eventsAtStart, submitted,
                  nextId, clock, readVars, trackerVars, poolVars >>

\* catch: `await client.query('ROLLBACK'); throw error;`.  The staged rows are
\* dropped (by the ROLLBACK, or by the server when the session is lost); if the
\* ROLLBACK itself throws, its error leaves the catch block instead of `error`.
Rollback ==
  /\ pc = "rollback"
  /\ \E fault \in FaultChoices :
       IF fault
       THEN /\ err' = "fault:rollback"
            /\ faults' = faults + 1
       ELSE UNCHANGED << err, faults >>
  /\ staged' = << >>
  /\ pc' = "release"
  /\ UNCHANGED << tableColumns, events, chEvents, chResult, queue, delivered,
                  discarded, records, idx, databaseEvents, logged, result, storage,
                  created, checkedOut, k, rowFailed, insertCalls, eventsAtStart,
                  submitted, nextId, clock, readVars, trackerVars, poolVars >>

\* finally: `client.release()`.
Release ==
  /\ pc = "release"
  /\ checkedOut' = checkedOut - 1
  /\ pc' = "return"
  /\ UNCHANGED << tableColumns, events, chEvents, chResult, queue, delivered,
                  discarded, records, idx, databaseEvents, logged, result, storage,
                  created, staged, k, err, rowFailed, insertCalls, eventsAtStart,
                  submitted, nextId, clock, faults, readVars, trackerVars, poolVars >>

\* A handler that fails the batch when a record was skipped.
HandlerOutcomeStrict(e, nLogged) ==
  IF e = "none" /\ nLogged = 0 THEN "success" ELSE "failure"

\* A handler whose catch block logs and does not rethrow.
HandlerOutcomeSwallow(e, nLogged) == "success"

\* The handler's try/catch around insertEvents: it logs and returns, or logs
\* and rethrows; the records the loop skipped play no part (nLogged is unused).
HandlerOutcome(e, nLogged) == IF e = "none" THEN "success" ELSE "failure"

Return ==
  /\ pc = "return"
  /\ result' = HandlerOutcome(err, logged)
  /\ pc' = "done"
  /\ UNCHANGED << tableColumns, events, chEvents, chResult, queue, delivered,
                  discarded, records, idx, databaseEvents, logged, storage, created,
                  checkedOut, staged, k, err, rowFailed, insertCalls, eventsAtStart,
                  submitted, nextId, clock, faults, readVars, trackerVars, poolVars >>

\* --------------------------------------- event source, after the invocation
\* The invocation succeeded: the records are checkpointed.
Checkpoint ==
  /\ pc = "done"
  /\ result = "success"
  /\ queue' = Tail(queue)
  /\ pc' = "idle"
  /\ UNCHANGED << tableColumns, events, chEvents, chResult, delivered, discarded,
                  records, idx, databaseEvents, logged, result, storage, created,
                  checkedOut, staged, k, err, rowFailed, insertCalls, eventsAtStart,
                  submitted, nextId, clock, faults, readVars, trackerVars, poolVars >>

\* bisectBatchOnError: a failed batch of several records is split in two, and
\* each half is retried on its own; splitting does not use up a retry.
Bisect ==
  /\ pc = "done"
  /\ result = "failure"
  /\ Len(Head(queue).recs) > 1
  /\ LET item == Head(queue)
         n == Len(item.recs)
         h == (n + 1) \div 2
     IN queue' = << [recs |-> SubSeq(item.recs, 1, h), retries |-> item.retries],
                    [recs |-> SubSeq(item.recs, h + 1, n), retries |-> item.retries] >>
                 \o Tail(queue)
  /\ pc' = "idle"
  /\ UNCHANGED << tableColumns, events, chEvents, chResult, delivered, discarded,
                  records, idx, databaseEvents, logged, result, storage, created,
                  checkedOut, staged, k, err, rowFailed, insertCalls, eventsAtStart,
                  submitted, nextId, clock, faults, readVars, trackerVars, poolVars >>

\* retryAttempts: a failed batch is redelivered while retries remain.
Redeliver ==
  /\ pc = "done"
  /\ result = "failure"
  /\ Len(Head(queue).recs) = 1
  /\ Head(queue).retries < RetryAttempts
  /\ queue' = << [Head(queue) EXCEPT !.retries = @ + 1] >> \o Tail(queue)
  /\ pc' = "idle"
  /\ UNCHANGED << tableColumns, events, chEvents, chResult, delivered, discarded,
                  records, idx, databaseEvents, logged, result, storage, created,
                  checkedOut, staged, k, err, rowFailed, insertCalls, eventsAtStart,
                  submitted, nextId, clock, faults, readVars, trackerVars, poolVars >>

\* The retries are used up; the event source has no onFailure destination and
\* moves past the records.
Discard ==
  /\ pc = "done"
  /\ result = "failure"
  /\ Len(Head(queue).recs) = 1
  /\ Head(queue).retries >= RetryAttempts
  /\ discarded' = discarded \o Head(queue).recs
  /\ queue' = Tail(queue)
  /\ pc' = "idle"
  /\ UNCHANGED << tableColumns, events, chEvents, chResult, delivered, records,
                  idx, databaseEvents, logged, result, storage, created, checkedOut,
                  staged, k, err, rowFailed, insertCalls, eventsAtStart, submitted,
                  nextId, clock, faults, readVars, trackerVars, poolVars >>

\* ---------------------------------------------- ClickHouseAdapter.insertEvents
\* A caller hands the adapter a batch of DatabaseEvents; the adapter maps them
\* and sends them in one `client.insert`, which the server accepts or rejects
\* as a whole.
ChBatches ==
  {[i \in 1..Len(b) |-> transformToDatabaseEvent(b[i], RandomUUID(i), 0)] :
     b \in {c \in Batches : \A i \in 1..Len(c) : c[i].json = "object"}}

ChInsertEvents(rows) ==
  /\ pc = "idle"
  /\ ~delivered
  /\ chResult = None
  /\ \E fault \in FaultChoices :
       IF fault
       THEN /\ chResult' = Some([rows |-> rows, failed |-> TRUE])
            /\ faults' = faults + 1
            /\ UNCHANGED chEvents
       ELSE /\ chEvents' = chEvents \o [i \in 1..Len(rows) |-> ChRow(rows[i])]
            /\ chResult' = Some([rows |-> rows, failed |-> FALSE])
            /\ UNCHANGED faults
  /\ UNCHANGED << tableColumns, events, queue, delivered, discarded, pc, records,
                  idx, databaseEvents, logged, result, storage, created, checkedOut,
                  staged, k, err, rowFailed, insertCalls, eventsAtStart, submitted,
                  nextId, clock, readVars, trackerVars, poolVars >>

Next ==
  \/ \E batch \in Batches : Deliver(batch)
  \/ Invoke
  \/ Tick
  \/ ProcessRecord
  \/ AfterLoop
  \/ PoolConnect
  \/ Begin
  \/ InsertRow
  \/ Commit
  \/ Rollback
  \/ Release
  \/ Return
  \/ Checkpoint
  \/ Bisect
  \/ Redeliver
  \/ Discard
  \/ \E rows \in ChBatches : ChInsertEvents(rows)

Spec == Init /\ [][Next]_vars

\* =========================================================== read operations
\* A table is a sequence of rows; an aggregate ranges over row positions, so
\* that equal rows count separately.
Count(W) == Cardinality(W)
\* A count of distinct values that takes NULL for a value.
DistinctCountingNull(T, W, col) == Cardinality({T[i][col] : i \in W})

\* COUNT(DISTINCT col) / uniq(col): the distinct non-null values.
Distinct(T, W, col) == Cardinality({T[i][col] : i \in W} \ {NULL})

\* The collation of the strings the model's titles are drawn from.
Collation == << "About", "Home", "Pricing" >>
StrRank(x) == CHOOSE n \in 1..Len(Collation) : Collation[n] = x
\* MAX(col) over strings: null when every value is null.
StrMax(S) ==
  IF S \ {NULL} = {} THEN NULL
  ELSE CHOOSE m \in S \ {NULL} : \A x \in S \ {NULL} : StrRank(x) <= StrRank(m)

\* ORDER BY key DESC: every order of the groups G the sort admits (rows with
\* equal keys come in any order).
RECURSIVE OrderByDesc(_, _)
OrderByDesc(G, key) ==
  IF G = {} THEN {<< >>}
  ELSE UNION {{<< g >> \o rest : rest \in OrderByDesc(G \ {g}, key)} :
                g \in {x \in G : \A y \in G : y[key] <= x[key]}}

\* ORDER BY key ASC over groups with distinct keys.
RECURSIVE OrderByAsc(_, _)
OrderByAsc(G, key) ==
  IF G = {} THEN << >>
  ELSE LET g == CHOOSE x \in G : \A y \in G : x[key] <= y[key]
       IN << g >> \o OrderByAsc(G \ {g}, key)

\* LIMIT n
Limit(seq, n) == SubSeq(seq, 1, IF Len(seq) < n THEN Len(seq) ELSE n)

\* ------------------------------------------------------------ DSQL: WHERE
\* `$n::date` compared with a timestamptz: midnight of that date.
DsqlDate(d) == d * TicksPerDay
\* INTERVAL '1 day'
OneDay == TicksPerDay

\* The end of the range taken as `event_time <= $3::date`.
DsqlInRangeEndMidnight(t, f) == t >= DsqlDate(f.startDate) /\ t <= DsqlDate(f.endDate)

\* event_time >= $2::date AND event_time < ($3::date + INTERVAL '1 day')
DsqlInRange(t, f) ==
  t >= DsqlDate(f.startDate) /\ t < DsqlDate(f.endDate) + OneDay

\* The WHERE clause all seven DSQL queries start with.  The optional fields of
\* QueryFilters (eventType, userId, sessionId, pagePath, country) appear in no
\* query.
DsqlWhere(r, f) == r.project_id = f.projectId /\ DsqlInRange(r.event_time, f)

\* A truncation to the day whatever the granularity.
DateTruncDay(gran, t) == (t \div TicksPerDay) * TicksPerDay

\* date_trunc('hour' | 'day', event_time)
DateTrunc(gran, t) ==
  IF gran = "hour" THEN (t \div TicksPerHour) * TicksPerHour
  ELSE (t \div TicksPerDay) * TicksPerDay

\* properties->>'key' on the JSONB column: the value as text, NULL when the
\* column is null or the key is missing.
JsonText(r, key) ==
  IF r.properties = None THEN NULL ELSE AsString(Prop(r.properties[1], key))

\* (properties->>'value')::float: None for SQL NULL, Some(n) for a number;
\* CastFails when the text is no number and the cast raises 22P02.
JsonFloat(r) == IF JsonText(r, "value") = NULL THEN None ELSE ParseNumber(JsonText(r, "value"))
CastFails(r) == JsonText(r, "value") # NULL /\ ParseNumber(JsonText(r, "value")) = None

\* The collation of the metric names; SQL NULL sorts last.
MetricOrder == << "", "CLS", "FID", "LCP", "TTFB", NULL >>
MetricRank(x) == CHOOSE n \in 1..Len(MetricOrder) : MetricOrder[n] = x

\* The referrer domain of the DSQL query: the capture of '^https?://([^/]+)'
\* when the referrer matches, the referrer itself otherwise.
UrlHost(url) ==
  CASE url = "https://g.com/a" -> "g.com"
    [] url = "https://g.com/b" -> "g.com"
    [] url = "http://t.co:80/x" -> "t.co:80"
    [] url = "http://t.co/y" -> "t.co"
    [] OTHER -> url

\* The same for ClickHouse's domain(): the host without port; empty when the
\* text has no scheme.
ChDomain(url) ==
  CASE url = "https://g.com/a" -> "g.com"
    [] url = "https://g.com/b" -> "g.com"
    [] url = "http://t.co:80/x" -> "t.co"
    [] url = "http://t.co/y" -> "t.co"
    [] OTHER -> ""

\* PERCENTILE_CONT(q/100) over the sorted values vs, times 100: linear
\* interpolation between the two ranks around 1 + q/100 * (n - 1); over no
\* value it is SQL NULL, which Number() turns into 0.
PercentileCont(vs, q) ==
  LET n == Len(vs)
      pos == 100 + q * (n - 1)
      lo == pos \div 100
      frac == pos % 100
  IN IF n = 0 THEN 0
     ELSE IF lo >= n THEN 100 * vs[n]
     ELSE 100 * vs[lo] + frac * (vs[lo + 1] - vs[lo])

\* The non-null values of the rows at the positions W of T, ascending.
RECURSIVE SortedValues(_, _)
SortedValues(T, W) ==
  LET V == {i \in W : JsonFloat(T[i]) # None} IN
  IF V = {} THEN << >>
  ELSE LET i == CHOOSE x \in V : \A y \in V : JsonFloat(T[x])[1] <= JsonFloat(T[y])[1]
       IN << JsonFloat(T[i])[1] >> \o SortedValues(T, V \ {i})

\* ORDER BY metric
RECURSIVE OrderByMetric(_)
OrderByMetric(G) ==
  IF G = {} THEN << >>
  ELSE LET g == CHOOSE x \in G : \A y \in G : MetricRank(x.metric) <= MetricRank(y.metric)
       IN << g >> \o OrderByMetric(G \ {g})

\* The outcome of getWebVitals: the rows, or the error of a query the server
\* rejects, which the adapter lets through.
QueryError(code) == [error |-> code, rows |-> << >>]
QueryOk(rows) == [error |-> "none", rows |-> rows]

\* ------------------------------------------------------ DSQL: the seven reads
\* Each operator gives the set of results the query can return.
DsqlGetOverview(T, f) ==
  LET W == {i \in DOMAIN T : DsqlWhere(T[i], f)} IN
  {[totalEvents |-> Count(W),
    totalPageviews |-> Count({i \in W : T[i].event_type = "pageview"}),
    uniqueSessions |-> Distinct(T, W, "session_id"),
    uniqueVisitors |-> Distinct(T, W, "anonymous_id"),
    uniqueUsers |-> Distinct(T, W, "user_id")]}

DsqlGetPageViews(T, f, lim) ==
  LET W == {i \in DOMAIN T : /\ DsqlWhere(T[i], f)
                             /\ T[i].event_type = "pageview"
                             /\ T[i].page_path # NULL}
      Grp(v) == {i \in W : T[i].page_path = v}
      G == {[path |-> v,
             title |-> StrMax({T[i].page_title : i \in Grp(v)}),
             pageviews |-> Count(Grp(v)),
             uniqueSessions |-> Distinct(T, Grp(v), "session_id"),
             uniqueVisitors |-> Distinct(T, Grp(v), "anonymous_id")] :
             v \in {T[i].page_path : i \in W}}
  IN {Limit(o, lim) : o \in OrderByDesc(G, "pageviews")}

DsqlGetReferrers(T, f, lim) ==
  LET W == {i \in DOMAIN T : /\ DsqlWhere(T[i], f)
                             /\ T[i].event_type = "pageview"
                             /\ T[i].page_referrer # NULL
                             /\ T[i].page_referrer # ""}
      Grp(v) == {i \in W : UrlHost(T[i].page_referrer) = v}
      G == {[referrerDomain |-> v,
             visits |-> Count(Grp(v)),
             uniqueSessions |-> Distinct(T, Grp(v), "session_id")] :
             v \in {UrlHost(T[i].page_referrer) : i \in W}}
  IN {Limit(o, lim) : o \in OrderByDesc(G, "visits")}

DsqlGetDeviceStats(T, f) ==
  LET P == {i \in DOMAIN T : DsqlWhere(T[i], f) /\ T[i].event_type = "pageview"}
      WD == {i \in P : T[i].device_type # NULL}
      WB == {i \in P : T[i].browser_name # NULL}
      WO == {i \in P : T[i].os_name # NULL}
      GD == {[deviceType |-> v,
              count |-> Count({i \in WD : T[i].device_type = v}),
              uniqueSessions |->
                Distinct(T, {i \in WD : T[i].device_type = v}, "session_id")] :
              v \in {T[i].device_type : i \in WD}}
      GB == {[browserName |-> v[1], browserVersion |-> v[2],
              count |-> Count({i \in WB : << T[i].browser_name,
                                             T[i].browser_version >> = v})] :
              v \in {<< T[i].browser_name, T[i].browser_version >> : i \in WB}}
      GO == {[osName |-> v[1], osVersion |-> v[2],
              count |-> Count({i \in WO : << T[i].os_name, T[i].os_version >> = v})] :
              v \in {<< T[i].os_name, T[i].os_version >> : i \in WO}}
  IN {[devices |-> d, browsers |-> Limit(b, BrowserOsLimit),
       operatingSystems |-> Limit(o, BrowserOsLimit)] :
       d \in OrderByDesc(GD, "count"), b \in OrderByDesc(GB, "count"),
       o \in OrderByDesc(GO, "count")}

DsqlGetGeoStats(T, f, lim) ==
  LET W == {i \in DOMAIN T : /\ DsqlWhere(T[i], f)
                             /\ T[i].event_type = "pageview"
                             /\ T[i].country # NULL}
      Grp(v) == {i \in W : << T[i].country, T[i].city >> = v}
      G == {[country |-> v[1], city |-> v[2],
             pageviews |-> Count(Grp(v)),
             uniqueSessions |-> Distinct(T, Grp(v), "session_id"),
             uniqueVisitors |-> Distinct(T, Grp(v), "anonymous_id")] :
             v \in {<< T[i].country, T[i].city >> : i \in W}}
  IN {Limit(o, lim) : o \in OrderByDesc(G, "pageviews")}

DsqlGetTimeSeries(T, f, gran) ==
  LET W == {i \in DOMAIN T : DsqlWhere(T[i], f)}
      Grp(v) == {i \in W : DateTrunc(gran, T[i].event_time) = v}
      G == {[time |-> v,
             events |-> Count(Grp(v)),
             pageviews |-> Count({i \in Grp(v) : T[i].event_type = "pageview"}),
             uniqueSessions |-> Distinct(T, Grp(v), "session_id"),
             uniqueVisitors |-> Distinct(T, Grp(v), "anonymous_id")] :
             v \in {DateTrunc(gran, T[i].event_time) : i \in W}}
  IN {OrderByAsc(G, "time")}

DsqlGetWebVitals(T, f) ==
  LET W == {i \in DOMAIN T : DsqlWhere(T[i], f) /\ T[i].event_type = "webvital"}
      Grp(v) == {i \in W : JsonText(T[i], "metric") = v}
      Vals(v) == SortedValues(T, Grp(v))
      G == {[metric |-> v,
             p50 |-> PercentileCont(Vals(v), 50),
             p75 |-> PercentileCont(Vals(v), 75),
             p95 |-> PercentileCont(Vals(v), 95),
             p99 |-> PercentileCont(Vals(v), 99),
             goodCount |-> Count({i \in Grp(v) : JsonText(T[i], "rating") = "good"}),
             needsImprovementCount |->
               Count({i \in Grp(v) : JsonText(T[i], "rating") = "needs-improvement"}),
             poorCount |-> Count({i \in Grp(v) : JsonText(T[i], "rating") = "poor"})] :
             v \in {JsonText(T[i], "metric") : i \in W}}
  IN IF \E i \in W : CastFails(T[i]) THEN {QueryError("22P02")}
     ELSE {QueryOk(OrderByMetric(G))}

\* ------------------------------------------------------- ClickHouse: WHERE
\* The `date` column of the ClickHouse events table: the calendar date of
\* `timestamp`.  (The ClickHouse table definition is not part of the sources at
\* hand; its columns are taken to be Nullable, as the queries' IS NOT NULL
\* tests suppose.)
ChDate(r) == r.timestamp \div TicksPerDay

\* date BETWEEN {startDate:Date} AND {endDate:Date}
ChInRange(r, f) == ChDate(r) >= f.startDate /\ ChDate(r) <= f.endDate

\* The WHERE clause all seven ClickHouse queries start with; the optional
\* fields of QueryFilters appear in no query here either.
ChWhere(r, f) == r.project_id = f.projectId /\ ChInRange(r, f)

\* toStartOfHour / toStartOfDay
ToStartOf(gran, t) ==
  IF gran = "hour" THEN (t \div TicksPerHour) * TicksPerHour
  ELSE (t \div TicksPerDay) * TicksPerDay

\* JSONExtractString(properties, key): the value when it is a JSON string, the
\* empty string when it is missing or of another type, NULL on a NULL column.
JSONExtractString(r, key) ==
  IF r.properties = None THEN NULL
  ELSE LET v == Prop(JSONParse(r.properties[1]), key)
       IN IF v # None /\ v[1][1] = "str" THEN v[1][2] ELSE ""

\* toFloat64(text): raises on a text that is no number; NULL stays NULL.
ToFloat64Fails(r) ==
  /\ JSONExtractString(r, "value") # NULL
  /\ ParseNumber(JSONExtractString(r, "value")) = None
ToFloat64(r) ==
  IF JSONExtractString(r, "value") = NULL THEN None
  ELSE ParseNumber(JSONExtractString(r, "value"))

\* The non-null values of the rows at the positions W of T, ascending.
RECURSIVE ChSortedValues(_, _)
ChSortedValues(T, W) ==
  LET V == {i \in W : ToFloat64(T[i]) # None} IN
  IF V = {} THEN << >>
  ELSE LET i == CHOOSE x \in V : \A y \in V : ToFloat64(T[x])[1] <= ToFloat64(T[y])[1]
       IN << ToFloat64(T[i])[1] >> \o ChSortedValues(T, V \ {i})

\* any(col): some non-null value of the group, NULL when there is none.
AnyOf(S) == IF S \ {NULL} = {} THEN {NULL} ELSE S \ {NULL}

\* ------------------------------------------------ ClickHouse: the seven reads
ChGetOverview(T, f) ==
  LET W == {i \in DOMAIN T : ChWhere(T[i], f)} IN
  {[totalEvents |-> Count(W),
    totalPageviews |-> Count({i \in W : T[i].event_type = "pageview"}),
    uniqueSessions |-> Distinct(T, W, "session_id"),
    uniqueVisitors |-> Distinct(T, W, "anonymous_id"),
    uniqueUsers |-> Distinct(T, W, "user_id")]}

ChGetPageViews(T, f, lim) ==
  LET W == {i \in DOMAIN T : /\ ChWhere(T[i], f)
                             /\ T[i].event_type = "pageview"
                             /\ T[i].page_path # NULL}
      Grp(v) == {i \in W : T[i].page_path = v}
      Paths == {T[i].page_path : i \in W}
      Titles == {t \in [Paths -> {T[i].page_title : i \in W} \cup {NULL}] :
                   \A v \in Paths : t[v] \in AnyOf({T[i].page_title : i \in Grp(v)})}
      G(t) == {[path |-> v,
                title |-> t[v],
                pageviews |-> Count(Grp(v)),
                uniqueSessions |-> Distinct(T, Grp(v), "session_id"),
                uniqueVisitors |-> Distinct(T, Grp(v), "anonymous_id")] : v \in Paths}
  IN UNION {{Limit(o, lim) : o \in OrderByDesc(G(t), "pageviews")} : t \in Titles}

ChGetReferrers(T, f, lim) ==
  LET W == {i \in DOMAIN T : /\ ChWhere(T[i], f)
                             /\ T[i].event_type = "pageview"
                             /\ T[i].page_referrer # NULL
                             /\ T[i].page_referrer # ""}
      Grp(v) == {i \in W : ChDomain(T[i].page_referrer) = v}
      G == {[referrerDomain |-> v,
             visits |-> Count(Grp(v)),
             uniqueSessions |-> Distinct(T, Grp(v), "session_id")] :
             v \in {ChDomain(T[i].page_referrer) : i \in W}}
  IN {Limit(o, lim) : o \in OrderByDesc(G, "visits")}

ChGetDeviceStats(T, f) ==
  LET P == {i \in DOMAIN T : ChWhere(T[i], f) /\ T[i].event_type = "pageview"}
      WD == {i \in P : T[i].device_type # NULL}
      WB == {i \in P : T[i].browser_name # NULL}
      WO == {i \in P : T[i].os_name # NULL}
      GD == {[deviceType |-> v,
              count |-> Count({i \in WD : T[i].device_type = v}),
              uniqueSessions |->
                Distinct(T, {i \in WD : T[i].device_type = v}, "session_id")] :
              v \in {T[i].device_type : i \in WD}}
      GB == {[browserName |-> v[1], browserVersion |-> v[2],
              count |-> Count({i \in WB : << T[i].browser_name,
                                             T[i].browser_version >> = v})] :
              v \in {<< T[i].browser_name, T[i].browser_version >> : i \in WB}}
      GO == {[osName |-> v[1], osVersion |-> v[2],
              count |-> Count({i \in WO : << T[i].os_name, T[i].os_version >> = v})] :
              v \in {<< T[i].os_name, T[i].os_version >> : i \in WO}}
  IN {[devices |-> d, browsers |-> Limit(b, BrowserOsLimit),
       operatingSystems |-> Limit(o, BrowserOsLimit)] :
       d \in OrderByDesc(GD, "count"), b \in OrderByDesc(GB, "count"),
       o \in OrderByDesc(GO, "count")}

ChGetGeoStats(T, f, lim) ==
  LET W == {i \in DOMAIN T : /\ ChWhere(T[i], f)
                             /\ T[i].event_type = "pageview"
                             /\ T[i].country # NULL}
      Grp(v) == {i \in W : << T[i].country, T[i].city >> = v}
      G == {[country |-> v[1], city |-> v[2],
             pageviews |-> Count(Grp(v)),
             uniqueSessions |-> Distinct(T, Grp(v), "session_id"),
             uniqueVisitors |-> Distinct(T, Grp(v), "anonymous_id")] :
             v \in {<< T[i].country, T[i].city >> : i \in W}}
  IN {Limit(o, lim) : o \in OrderByDesc(G, "pageviews")}

ChGetTimeSeries(T, f, gran) ==
  LET W == {i \in DOMAIN T : ChWhere(T[i], f)}
      Grp(v) == {i \in W : ToStartOf(gran, T[i].timestamp) = v}
      G == {[time |-> v,
             events |-> Count(Grp(v)),
             pageviews |-> Count({i \in Grp(v) : T[i].event_type = "pageview"}),
             uniqueSessions |-> Distinct(T, Grp(v), "session_id"),
             uniqueVisitors |-> Distinct(T, Grp(v), "anonymous_id")] :
             v \in {ToStartOf(gran, T[i].timestamp) : i \in W}}
  IN {OrderByAsc(G, "time")}

ChGetWebVitals(T, f) ==
  LET W == {i \in DOMAIN T : ChWhere(T[i], f) /\ T[i].event_type = "webvital"}
      Grp(v) == {i \in W : JSONExtractString(T[i], "metric") = v}
      Vals(v) == ChSortedValues(T, Grp(v))
      Rated(v, x) == Count({i \in Grp(v) : JSONExtractString(T[i], "rating") = x})
      G == {[metric |-> v,
             p50 |-> PercentileCont(Vals(v), 50),
             p75 |-> PercentileCont(Vals(v), 75),
             p95 |-> PercentileCont(Vals(v), 95),
             p99 |-> PercentileCont(Vals(v), 99),
             goodCount |-> Rated(v, "good"),
             needsImprovementCount |-> Rated(v, "needs-improvement"),
             poorCount |-> Rated(v, "poor")] :
             v \in {JSONExtractString(T[i], "metric") : i \in W}}
  IN IF \E i \in W : ToFloat64Fails(T[i]) THEN {QueryError("CANNOT_PARSE_TEXT")}
     ELSE {QueryOk(OrderByMetric(G))}

\* ------------------------------------------------------- the read workload
\* The events the tables of the read workload are filled from: events at the
\* first and the last tick of a day, and events that differ from one of them
\* in a column or two (a session, a user, a path, a country, a referrer).
ReadEvent(pid, ty, t, sid, uid, path, country, ref, props) ==
  [Payload(pid, ty, Some(t)) EXCEPT
     !.sessionId = sid,
     !.userId = uid,
     !.properties = props,
     !.context = Some([NoContext EXCEPT
                         !.page = Some([url |-> NULL, title |-> "Home", path |-> path,
                                        referrer |-> ref]),
                         !.userAgent = "UA_CHROME_MAC",
                         !.receivedAt = Some(t + 1),
                         !.geo = Some([country |-> country, city |-> NULL,
                                       region |-> NULL])])]

Days == 0..(NumDays - 1)
FirstTick(d) == d * TicksPerDay
LastTick(d) == (d + 1) * TicksPerDay - 1
Vital(metric, value, rating) ==
  Some(<< <<"metric", JStr(metric)>>, <<"value", value>>, <<"rating", JStr(rating)>> >>)

ReadUniverse ==
  << ReadEvent("p1", "pageview", FirstTick(0), "s1", "u1", "/a", "DE",
               "https://g.com/a", None),
     ReadEvent("p1", "pageview", LastTick(0), "s1", "u1", "/a", "DE",
               "https://g.com/a", None),
     ReadEvent("p1", "pageview", FirstTick(1), "s1", "u1", "/a", "DE",
               "https://g.com/a", None),
     ReadEvent("p1", "pageview", LastTick(NumDays - 1), "s1", "u1", "/a", "DE",
               "https://g.com/a", None),
     ReadEvent("p2", "pageview", LastTick(0), "s1", "u1", "/a", "DE",
               "https://g.com/a", None),
     ReadEvent("p1", "click", LastTick(0), "s1", "u1", "/a", "DE",
               "https://g.com/a", None),
     ReadEvent("p1", "pageview", LastTick(0), "s2", "u1", "/a", "DE",
               "http://t.co:80/x", None),
     ReadEvent("p1", "pageview", LastTick(0), "s1", NULL, "/a", "DE", NULL, None),
     ReadEvent("p1", "pageview", LastTick(0), "s1", "u1", "/b", "DE",
               "https://g.com/b", None),
     ReadEvent("p1", "pageview", LastTick(0), "s1", "u1", "/a", "FR",
               "http://t.co/y", None),
     ReadEvent("p1", "webvital", LastTick(0), "s1", "u1", "/a", "DE",
               "https://g.com/a", Vital("LCP", JStr("2"), "good")),
     ReadEvent("p1", "webvital", FirstTick(1), "s1", "u1", "/a", "DE",
               "https://g.com/a", Vital("LCP", JNum(5), "poor")) >>

\* The tables of at most MaxRows rows, as non-decreasing index sequences (the
\* order of the rows of a table has no meaning).
TableIndexes ==
  UNION {{ix \in [1..n -> 1..Len(ReadUniverse)] :
            \A i \in 1..(n - 1) : ix[i] <= ix[i + 1]} : n \in 0..MaxRows}
ReadRow(i) == transformToDatabaseEvent(ReadUniverse[i], RandomUUID(i), 0)

\* The optional fields of QueryFilters: none, one of them, or all five.
NoOptional ==
  [eventType |-> NULL, userId |-> NULL, sessionId |-> NULL, pagePath |-> NULL,
   country |-> NULL]
OptionalChoices ==
  {NoOptional,
   [NoOptional EXCEPT !.eventType = "pageview"],
   [NoOptional EXCEPT !.userId = "u1"],
   [NoOptional EXCEPT !.sessionId = "s1"],
   [NoOptional EXCEPT !.pagePath = "/a"],
   [NoOptional EXCEPT !.country = "DE"],
   [eventType |-> "pageview", userId |-> "u1", sessionId |-> "s1",
    pagePath |-> "/a", country |-> "DE"]}
Filters ==
  {[projectId |-> "p1", startDate |-> sd, endDate |-> ed, eventType |-> o.eventType,
    userId |-> o.userId, sessionId |-> o.sessionId, pagePath |-> o.pagePath,
    country |-> o.country] : sd \in Days, ed \in Days, o \in OptionalChoices}
Limits == {1, DefaultLimit}
Granularities == {"hour", "day"}

\* Both tables hold the same events; nothing is being ingested.
InitRead ==
  /\ tableColumns = SchemaColumns
  /\ \E ix \in TableIndexes :
       /\ events = [i \in 1..Len(ix) |-> StoredRow(ReadRow(ix[i]), SchemaColumns)]
       /\ chEvents = [i \in 1..Len(ix) |-> ChRow(ReadRow(ix[i]))]
  /\ chResult = None
  /\ queue = << >>
  /\ delivered = FALSE
  /\ discarded = << >>
  /\ pc = "idle"
  /\ records = << >>
  /\ idx = 1
  /\ databaseEvents = << >>
  /\ logged = 0
  /\ result = "none"
  /\ storage = "null"
  /\ created = 0
  /\ checkedOut = 0
  /\ staged = << >>
  /\ k = 1
  /\ err = "none"
  /\ rowFailed = 0
  /\ insertCalls = 0
  /\ eventsAtStart = << >>
  /\ submitted = << >>
  /\ nextId = 0
  /\ clock = 0
  /\ faults = 0
  /\ op = "none"
  /\ filter = NoFilter
  /\ limit = 0
  /\ res = << >>
  /\ issued = 0
  /\ TrackerLoaded("jwt", FALSE)
  /\ PoolCreated

\* One call of a read operation by a caller that has no call in progress: the
\* adapter runs the query and resolves with what the server gave.  `arg` is
\* the limit, or the granularity of getTimeSeries.
Read(name, f, arg, results) ==
  /\ op = "none"
  /\ op' = name
  /\ filter' = f
  /\ limit' = arg
  /\ res' \in results
  /\ issued' = 1
  /\ UNCHANGED << ingestVars, trackerVars, poolVars >>

DsqlOverview ==
  \E f \in Filters : Read("dsql.getOverview", f, 0, DsqlGetOverview(events, f))
DsqlPageViews ==
  \E f \in Filters, n \in Limits :
    Read("dsql.getPageViews", f, n, DsqlGetPageViews(events, f, n))
DsqlReferrers ==
  \E f \in Filters, n \in Limits :
    Read("dsql.getReferrers", f, n, DsqlGetReferrers(events, f, n))
DsqlDeviceStats ==
  \E f \in Filters : Read("dsql.getDeviceStats", f, 0, DsqlGetDeviceStats(events, f))
DsqlGeoStats ==
  \E f \in Filters, n \in Limits :
    Read("dsql.getGeoStats", f, n, DsqlGetGeoStats(events, f, n))
DsqlTimeSeries ==
  \E f \in Filters, g \in Granularities :
    Read("dsql.getTimeSeries", f, g, DsqlGetTimeSeries(events, f, g))
DsqlWebVitals ==
  \E f \in Filters : Read("dsql.getWebVitals", f, 0, DsqlGetWebVitals(events, f))
ChOverview ==
  \E f \in Filters : Read("ch.getOverview", f, 0, ChGetOverview(chEvents, f))
ChPageViews ==
  \E f \in Filters, n \in Limits :
    Read("ch.getPageViews", f, n, ChGetPageViews(chEvents, f, n))
ChReferrers ==
  \E f \in Filters, n \in Limits :
    Read("ch.getReferrers", f, n, ChGetReferrers(chEvents, f, n))
ChDeviceStats ==
  \E f \in Filters : Read("ch.getDeviceStats", f, 0, ChGetDeviceStats(chEvents, f))
ChGeoStats ==
  \E f \in Filters, n \in Limits :
    Read("ch.getGeoStats", f, n, ChGetGeoStats(chEvents, f, n))
ChTimeSeries ==
  \E f \in Filters, g \in Granularities :
    Read("ch.getTimeSeries", f, g, ChGetTimeSeries(chEvents, f, g))
ChWebVitals ==
  \E f \in Filters : Read("ch.getWebVitals", f, 0, ChGetWebVitals(chEvents, f))

\* ------------------------------------------------- the query API: getOverview
\* A date parameter that names no calendar day ("2024-02-30", "soon").
NotADate == 0 - 1
\* The requests the API is called with: projectId given or missing, each date
\* a day or not a date.
Requests ==
  {[projectId |-> pid, startDate |-> sd, endDate |-> ed, eventType |-> NULL,
    userId |-> NULL, sessionId |-> NULL, pagePath |-> NULL, country |-> NULL] :
     pid \in {NULL, "p1"}, sd \in Days \cup {NotADate}, ed \in Days \cup {NotADate}}
ValidationError == [error |-> "ValidationError"]

\* A validation that checks the dates one by one and never compares them.
ValidRequestUnordered(q) ==
  /\ q.projectId # NULL
  /\ q.startDate # NotADate
  /\ q.endDate # NotADate

\* The request names a project and a range of calendar days that is not
\* reversed.
ValidRequest(q) ==
  /\ q.projectId # NULL
  /\ q.startDate # NotADate
  /\ q.endDate # NotADate
  /\ q.startDate <= q.endDate

\* The getOverview operation of the API: it validates the request, and only
\* then asks the configured storage adapter.
ApiGetOverview ==
  \E q \in Requests :
    IF ValidRequest(q)
    THEN Read("api.getOverview", q, 0,
              DsqlGetOverview(events, q) \cup ChGetOverview(chEvents, q))
    ELSE /\ op = "none"
         /\ op' = "api.getOverview"
         /\ filter' = q
         /\ limit' = 0
         /\ res' = ValidationError
         /\ issued' = 0
         /\ UNCHANGED << ingestVars, trackerVars, poolVars >>

\* The caller has taken the result of its call.
Settle ==
  /\ op # "none"
  /\ op' = "none"
  /\ filter' = NoFilter
  /\ limit' = 0
  /\ res' = << >>
  /\ issued' = 0
  /\ UNCHANGED << ingestVars, trackerVars, poolVars >>

NextRead ==
  \/ DsqlOverview
  \/ DsqlPageViews
  \/ DsqlReferrers
  \/ DsqlDeviceStats
  \/ DsqlGeoStats
  \/ DsqlTimeSeries
  \/ DsqlWebVitals
  \/ ChOverview
  \/ ChPageViews
  \/ ChReferrers
  \/ ChDeviceStats
  \/ ChGeoStats
  \/ ChTimeSeries
  \/ ChWebVitals
  \/ Settle

SpecRead == InitRead /\ [][NextRead]_vars

\* The query API serving getOverview requests over the tables.
NextApi ==
  \/ ApiGetOverview
  \/ Settle

SpecApi == InitRead /\ [][NextApi]_vars

\* ------------------------------------------- reads while a batch is ingested
\* The query side reads the tables while the processor ingests: a read may be
\* called between any two steps of the handler.  The caller asks for the whole
\* range of days of one project.
WholeRange ==
  [projectId |-> "p1", startDate |-> 0, endDate |-> NumDays - 1,
   eventType |-> NULL, userId |-> NULL, sessionId |-> NULL, pagePath |-> NULL,
   country |-> NULL]

ReadDuringIngest(f) ==
  \/ Read("dsql.getOverview", f, 0, DsqlGetOverview(events, f))
  \/ Read("dsql.getPageViews", f, DefaultLimit, DsqlGetPageViews(events, f, DefaultLimit))
  \/ Read("dsql.getReferrers", f, DefaultLimit, DsqlGetReferrers(events, f, DefaultLimit))
  \/ Read("dsql.getDeviceStats", f, 0, DsqlGetDeviceStats(events, f))
  \/ Read("dsql.getGeoStats", f, DefaultLimit, DsqlGetGeoStats(events, f, DefaultLimit))
  \/ Read("dsql.getTimeSeries", f, "day", DsqlGetTimeSeries(events, f, "day"))
  \/ Read("dsql.getWebVitals", f, 0, DsqlGetWebVitals(events, f))
  \/ Read("ch.getOverview", f, 0, ChGetOverview(chEvents, f))
  \/ Read("ch.getPageViews", f, DefaultLimit, ChGetPageViews(chEvents, f, DefaultLimit))
  \/ Read("ch.getReferrers", f, DefaultLimit, ChGetReferrers(chEvents, f, DefaultLimit))
  \/ Read("ch.getDeviceStats", f, 0, ChGetDeviceStats(chEvents, f))
  \/ Read("ch.getGeoStats", f, DefaultLimit, ChGetGeoStats(chEvents, f, DefaultLimit))
  \/ Read("ch.getTimeSeries", f, "day", ChGetTimeSeries(chEvents, f, "day"))
  \/ Read("ch.getWebVitals", f, 0, ChGetWebVitals(chEvents, f))

NextStore ==
  \/ Next
  \/ ReadDuringIngest(WholeRange)
  \/ Settle

SpecStore == Init /\ [][NextStore]_vars

\* ------------------------------------------------------- the browser tracker
\* Two tracker scripts exist: the one that keeps a session and an anonymous id
\* and checks Do Not Track, and the one that sends a JWT and does not.
TrackerBuilds == {"anonymous", "jwt"}
\* `if (this.isDNTEnabled()) return;` at the top of init: only one script has it.
ChecksDNT(build) == build = "anonymous"

\* trackPageView / track: `if (!this.isInitialized || !this.config) return;`
\* then sendEvent, which hands one event to fetch.
Sends(type) == IF ~isInitialized \/ config = NULL THEN << >> ELSE << type >>
\* n route-change hooks run one after the other, each calling trackPageView.
RECURSIVE Repeat(_, _)
Repeat(q, n) == IF n = 0 THEN << >> ELSE q \o Repeat(q, n - 1)

InitTracker ==
  /\ tableColumns = SchemaColumns
  /\ events = << >>
  /\ chEvents = << >>
  /\ chResult = None
  /\ queue = << >>
  /\ delivered = FALSE
  /\ discarded = << >>
  /\ pc = "idle"
  /\ records = << >>
  /\ idx = 1
  /\ databaseEvents = << >>
  /\ logged = 0
  /\ result = "none"
  /\ storage = "null"
  /\ created = 0
  /\ checkedOut = 0
  /\ staged = << >>
  /\ k = 1
  /\ err = "none"
  /\ rowFailed = 0
  /\ insertCalls = 0
  /\ eventsAtStart = << >>
  /\ submitted = << >>
  /\ nextId = 0
  /\ clock = 0
  /\ faults = 0
  /\ op = "none"
  /\ filter = NoFilter
  /\ limit = 0
  /\ res = << >>
  /\ issued = 0
  /\ \E build \in TrackerBuilds, dnt \in BOOLEAN : TrackerLoaded(build, dnt)
  /\ PoolCreated

\* A tracker call or a navigation that sent the events `sent`.
TrackerCall(name, sent) ==
  /\ Len(outbox) + Len(sent) <= MaxOutbox
  /\ outbox' = outbox \o sent
  /\ lastCall' = [name |-> name, sent |-> sent]
  /\ UNCHANGED << ingestVars, readVars, poolVars, trackerBuild, doNotTrack >>

\* init(config): sets config and isInitialized, sends the first pageview and,
\* when the page's timing gives a TTFB, that web vital; then wraps
\* history.pushState and history.replaceState and adds a popstate listener.
\* Nothing in it looks at whether it ran before.
TrackerInit ==
  /\ wrappers < MaxInits
  /\ IF ChecksDNT(trackerBuild) /\ doNotTrack
     THEN /\ TrackerCall("init", << >>)
          /\ UNCHANGED << isInitialized, config, wrappers >>
     ELSE /\ isInitialized' = TRUE
          /\ config' = "config"
          /\ wrappers' = wrappers + 1
          /\ \E ttfb \in BOOLEAN :
               TrackerCall("init", << "pageview" >> \o
                                   (IF ttfb THEN << "webvital" >> ELSE << >>))

\* The application calls track(eventType).
Track ==
  /\ TrackerCall("track", Sends("click"))
  /\ UNCHANGED << isInitialized, config, wrappers >>

\* The application calls trackPageView().
TrackPageView ==
  /\ TrackerCall("trackPageView", Sends("pageview"))
  /\ UNCHANGED << isInitialized, config, wrappers >>

\* The application (its router) calls history.pushState: every wrapper an init
\* installed calls the function it replaced and then trackPageView.
PushState ==
  /\ TrackerCall("pushState", Repeat(Sends("pageview"), wrappers))
  /\ UNCHANGED << isInitialized, config, wrappers >>

ReplaceState ==
  /\ TrackerCall("replaceState", Repeat(Sends("pageview"), wrappers))
  /\ UNCHANGED << isInitialized, config, wrappers >>

\* The user goes back or forward: every popstate listener runs.
PopState ==
  /\ TrackerCall("popstate", Repeat(Sends("pageview"), wrappers))
  /\ UNCHANGED << isInitialized, config, wrappers >>

NextTracker ==
  \/ TrackerInit
  \/ Track
  \/ TrackPageView
  \/ PushState
  \/ ReplaceState
  \/ PopState

SpecTracker == InitTracker /\ [][NextTracker]_vars

\* ------------------------------------------- the DSQL adapter's pool, shared
\* Several calls of the adapter run at once on the one pool (the event loop
\* interleaves them at every await).  A step is what JavaScript runs between
\* two awaits: the continuation of a resolved await up to the next one.
OperationKinds ==
  {"insertEvents", "getOverview", "getPageViews", "getReferrers", "getDeviceStats",
   "getGeoStats", "getTimeSeries", "getWebVitals"}
\* The six reads other than getDeviceStats handle their connection with the
\* same lines (connect, one awaited SELECT in try, release in finally): a call
\* in progress is recorded as one of three shapes.
Shape(kind) ==
  IF kind \in {"insertEvents", "getDeviceStats"} THEN kind ELSE "read"
\* What the call awaits first on its connection: BEGIN, its one SELECT, or the
\* Promise.all of getDeviceStats' three SELECTs.
FirstAwait(shape) ==
  CASE shape = "insertEvents" -> "begin"
    [] shape = "getDeviceStats" -> "all"
    [] OTHER -> "query"
QueriesSent(shape) == IF shape = "getDeviceStats" THEN 3 ELSE 1

\* A call that releases its connection at the end of the try block, and so
\* keeps it when a query fails.
ReleasedOnSuccessOnly(ok) == ok

\* `finally { client.release(); }`: runs however the try block ended.
ReleasedInFinally(ok) == TRUE

InitPool ==
  /\ tableColumns = SchemaColumns
  /\ events = << >>
  /\ chEvents = << >>
  /\ chResult = None
  /\ queue = << >>
  /\ delivered = FALSE
  /\ discarded = << >>
  /\ pc = "idle"
  /\ records = << >>
  /\ idx = 1
  /\ databaseEvents = << >>
  /\ logged = 0
  /\ result = "none"
  /\ storage = "null"
  /\ created = 0
  /\ checkedOut = 0
  /\ staged = << >>
  /\ k = 1
  /\ err = "none"
  /\ rowFailed = 0
  /\ insertCalls = 0
  /\ eventsAtStart = << >>
  /\ submitted = << >>
  /\ nextId = 0
  /\ clock = 0
  /\ faults = 0
  /\ op = "none"
  /\ filter = NoFilter
  /\ limit = 0
  /\ res = << >>
  /\ issued = 0
  /\ TrackerLoaded("jwt", FALSE)
  /\ PoolCreated

\* A caller starts a call of the adapter: it awaits pool.connect().
Call(o, kind) ==
  /\ operations[o].pc = "none"
  /\ IF o = 1 THEN TRUE ELSE operations[o - 1].pc # "none"
  /\ operations' = [operations EXCEPT ![o] = [@ EXCEPT !.kind = Shape(kind), !.pc = "connect"]]
  /\ UNCHANGED << ingestVars, readVars, trackerVars, connections >>

\* pool.connect() resolves with an idle connection (it waits while all are
\* checked out) and the call sends its first queries; or it rejects, and the
\* call ends without a connection.
Connect(o) ==
  /\ operations[o].pc = "connect"
  /\ \/ \E c \in 1..PoolMax :
          /\ connections[c].owner = 0
          /\ connections' =
               [connections EXCEPT ![c] = [@ EXCEPT !.owner = o,
                                                    !.pending = QueriesSent(operations[o].kind)]]
          /\ operations' =
               [operations EXCEPT ![o] = [@ EXCEPT !.pc = FirstAwait(operations[o].kind),
                                                   !.conn = c, !.acquired = @ + 1]]
     \/ /\ operations' = [operations EXCEPT ![o] = [@ EXCEPT !.pc = "returned"]]
        /\ UNCHANGED connections
  /\ UNCHANGED << ingestVars, readVars, trackerVars >>

\* The state after the call on connection c left its try block with `left`
\* queries of its own still queued on the connection.
Leave(o, c, ok, left) ==
  IF ReleasedInFinally(ok)
  THEN /\ connections' =
            [connections EXCEPT ![c] = [owner |-> 0, pending |-> 0,
                                        stray |-> connections[c].stray + left]]
       /\ operations' =
            [operations EXCEPT ![o] = [@ EXCEPT !.pc = "returned", !.conn = 0,
                                                !.released = @ + 1]]
  ELSE /\ connections' = [connections EXCEPT ![c] = [@ EXCEPT !.pending = left]]
       /\ operations' = [operations EXCEPT ![o] = [@ EXCEPT !.pc = "returned"]]

\* The call goes on to await its next query.
Await(o, c, next) ==
  /\ connections' = [connections EXCEPT ![c] = [@ EXCEPT !.pending = 1]]
  /\ operations' = [operations EXCEPT ![o] = [@ EXCEPT !.pc = next]]

\* The connection finishes the query at the head of its queue, with or without
\* an error.  A query left by an earlier holder comes first and resumes
\* nobody; a query of the holder resumes the call that awaits it.
QueryDone(c) ==
  /\ \E ok \in BOOLEAN :
       IF connections[c].stray > 0
       THEN /\ connections' = [connections EXCEPT ![c] = [@ EXCEPT !.stray = @ - 1]]
            /\ UNCHANGED operations
       ELSE /\ connections[c].pending > 0
            /\ connections[c].owner # 0
            /\ LET o == connections[c].owner
                   at == operations[o].pc
                   left == connections[c].pending - 1
               IN CASE at = "begin" ->
                         IF ok THEN Await(o, c, "insert") ELSE Await(o, c, "rollback")
                    [] at = "insert" ->
                         IF ok THEN Await(o, c, "commit") ELSE Await(o, c, "rollback")
                    [] at = "commit" ->
                         IF ok THEN Leave(o, c, TRUE, 0) ELSE Await(o, c, "rollback")
                    [] at = "rollback" -> Leave(o, c, FALSE, 0)
                    [] at = "query" -> Leave(o, c, ok, 0)
                    [] at = "all" ->
                         IF ok /\ left > 0
                         THEN /\ connections' =
                                   [connections EXCEPT ![c] = [@ EXCEPT !.pending = left]]
                              /\ UNCHANGED operations
                         ELSE Leave(o, c, ok, left)
  /\ UNCHANGED << ingestVars, readVars, trackerVars >>

NextPool ==
  \/ \E o \in Calls, kind \in OperationKinds : Call(o, kind)
  \/ \E o \in Calls : Connect(o)
  \/ \E c \in 1..PoolMax : QueryDone(c)

SpecPool == InitPool /\ [][NextPool]_vars

\* ------------------------------------------------------ the normalizer alone
\* The raw events the normalizer is run on by itself: every shape of the page
\* context (no context, no page, a field absent, empty, or set), of the
\* properties (absent, empty, with or without the page keys) and of receivedAt.
PageChoices ==
  {None, Some(NoPage), Some([NoPage EXCEPT !.path = ""]),
   Some([NoPage EXCEPT !.path = "/a"]),
   Some([NoPage EXCEPT !.path = "/a", !.referrer = ""])}
ContextChoices ==
  {None} \cup {Some([NoContext EXCEPT !.page = pg, !.receivedAt = r]) :
                 pg \in PageChoices, r \in {None, Some(3)}}
PropertiesChoices ==
  {None, Some(<< >>), Some(<< <<"path", JStr("/b")>> >>),
   Some(<< <<"referrer", JStr("https://g.com/a")>>, <<"path", JStr("/b")>> >>)}
NormUniverse ==
  {InvalidJson, JsonNull} \cup
  {[Payload("p1", "pageview", Some(1)) EXCEPT !.context = c, !.properties = pr] :
     c \in ContextChoices, pr \in PropertiesChoices}

\* A batch that holds the same raw event twice is about to be normalized.
InitNorm ==
  /\ tableColumns = SchemaColumns
  /\ events = << >>
  /\ chEvents = << >>
  /\ chResult = None
  /\ queue = << >>
  /\ delivered = TRUE
  /\ discarded = << >>
  /\ pc = "loop"
  /\ \E p \in NormUniverse : records = << p, p >>
  /\ idx = 1
  /\ databaseEvents = << >>
  /\ logged = 0
  /\ result = "none"
  /\ storage = "null"
  /\ created = 0
  /\ checkedOut = 0
  /\ staged = << >>
  /\ k = 1
  /\ err = "none"
  /\ rowFailed = 0
  /\ insertCalls = 0
  /\ eventsAtStart = << >>
  /\ submitted = << >>
  /\ nextId = 0
  /\ clock = 0
  /\ faults = 0
  /\ op = "none"
  /\ filter = NoFilter
  /\ limit = 0
  /\ res = << >>
  /\ issued = 0
  /\ TrackerLoaded("jwt", FALSE)
  /\ PoolCreated

NextNorm ==
  \/ ProcessRecord
  \/ Tick

SpecNorm == InitNorm /\ [][NextNorm]_vars

\* ================================================================== claims
\* A payload the try block of the loop gets through.
Decodes(p) == ~ParseThrows(p) /\ ~TransformThrows(p)
\* A payload that is malformed in the specification's sense: it does not
\* decode, or it lacks projectId, eventType or timestamp.
Malformed(p) ==
  \/ p.json # "object"
  \/ p.projectId = NULL
  \/ p.eventType = NULL
  \/ p.timestamp = None
\* The rows the running invocation has added to the table.
Added == SubSeq(events, Len(eventsAtStart) + 1, Len(events))
\* The insertEvents call of the running invocation has returned or thrown.
InsertFinished == pc \in {"return", "done"} /\ insertCalls = 1

C3_InsertFailureFailsBatch ==
  (pc = "done" /\ insertCalls = 1 /\ err # "none") => result = "failure"

\* C3 witness: a failed insert of a batch that also held a skipped payload.
C3_Witness ==
  /\ pc = "done" /\ insertCalls = 1 /\ err # "none"
  /\ logged >= 1 /\ Len(databaseEvents) >= 1

\* C4: when no payload of the batch gets through decode and transform, the
\* handler returns success, never calls insertEvents and leaves the table alone.
C4_EmptyBatchNoOp ==
  (pc = "done" /\ \A i \in 1..Len(records) : ~Decodes(records[i])) =>
    /\ result = "success"
    /\ insertCalls = 0
    /\ events = eventsAtStart
    /\ checkedOut = 0

\* C4 witness: an invocation over a batch of undecodable payloads has ended.
C4_Witness ==
  /\ pc = "done" /\ Len(records) >= 1 /\ logged = Len(records)
  /\ \A i \in 1..Len(records) : ~Decodes(records[i])

\* C5: malformed payloads (undecodable, or lacking projectId, eventType or
\* timestamp) never make the batch fail: a batch of malformed payloads only ends
\* in success with the table unchanged.
C5_MalformedContained ==
  (pc = "done" /\ \A i \in 1..Len(records) : Malformed(records[i])) =>
    (result = "success" /\ events = eventsAtStart)

\* C6: normalization produces no row for a payload that lacks projectId,
\* eventType or timestamp: the rows accumulated by the loop are one per
\* processed payload that is not malformed.
C6_NormalizeValidates ==
  pc = "loop" =>
    Len(databaseEvents) =
      Cardinality({i \in 1..(idx - 1) : ~Malformed(records[i])})

\* C7: every row passed to insertEvents and every row of the events table has a
\* non-null projectId and a non-null eventType.
C7_KeysNeverNull ==
  /\ insertCalls = 1 =>
       \A i \in 1..Len(databaseEvents) :
         databaseEvents[i].project_id # NULL /\ databaseEvents[i].event_type # NULL
  /\ \A i \in 1..Len(events) :
       events[i].project_id # NULL /\ events[i].event_type # NULL

\* C8: eventId is drawn at normalization time and never taken from the payload,
\* and no two rows ever passed to insertEvents, nor two rows of the table,
\* share an eventId, redelivered batches included.
C8_EventIdUnique ==
  /\ \A i, j \in 1..Len(submitted) : i # j => submitted[i] # submitted[j]
  /\ \A i \in 1..Len(submitted) : submitted[i] \notin ClientIds
  /\ \A i \in 1..Len(databaseEvents) : databaseEvents[i].event_id \notin ClientIds
  /\ "event_id" \in tableColumns =>
       \A i, j \in 1..Len(events) : i # j => events[i].event_id # events[j].event_id

\* C8 witness: payloads that carried an eventId of their own were passed to
\* insertEvents by an earlier delivery and again by this redelivery.
C8_Witness ==
  /\ insertCalls = 1
  /\ Len(databaseEvents) >= 1
  /\ Len(submitted) > Len(databaseEvents)
  /\ \A i \in 1..Len(records) : records[i].eventId # None

\* The read operations by name, and the table each one reads.
DsqlOps ==
  {"dsql.getOverview", "dsql.getPageViews", "dsql.getReferrers", "dsql.getDeviceStats",
   "dsql.getGeoStats", "dsql.getTimeSeries", "dsql.getWebVitals"}
TableOf(name) == IF name \in DsqlOps THEN events ELSE chEvents
ResultsOf(name, T, f, arg) ==
  CASE name = "dsql.getOverview" -> DsqlGetOverview(T, f)
    [] name = "dsql.getPageViews" -> DsqlGetPageViews(T, f, arg)
    [] name = "dsql.getReferrers" -> DsqlGetReferrers(T, f, arg)
    [] name = "dsql.getDeviceStats" -> DsqlGetDeviceStats(T, f)
    [] name = "dsql.getGeoStats" -> DsqlGetGeoStats(T, f, arg)
    [] name = "dsql.getTimeSeries" -> DsqlGetTimeSeries(T, f, arg)
    [] name = "dsql.getWebVitals" -> DsqlGetWebVitals(T, f)
    [] name = "ch.getOverview" -> ChGetOverview(T, f)
    [] name = "ch.getPageViews" -> ChGetPageViews(T, f, arg)
    [] name = "ch.getReferrers" -> ChGetReferrers(T, f, arg)
    [] name = "ch.getDeviceStats" -> ChGetDeviceStats(T, f)
    [] name = "ch.getGeoStats" -> ChGetGeoStats(T, f, arg)
    [] name = "ch.getTimeSeries" -> ChGetTimeSeries(T, f, arg)
    [] name = "ch.getWebVitals" -> ChGetWebVitals(T, f)

\* A row matches every optional field of the filter that is present.
MatchesOptional(r, f) ==
  /\ f.eventType = NULL \/ r.event_type = f.eventType
  /\ f.userId = NULL \/ r.user_id = f.userId
  /\ f.sessionId = NULL \/ r.session_id = f.sessionId
  /\ f.pagePath = NULL \/ r.page_path = f.pagePath
  /\ f.country = NULL \/ r.country = f.country

\* C9: every read operation of either adapter computes its result over the rows
\* that match every optional filter field that is present: the result of a call
\* is a result of the same call over the table without the rows that fail an
\* optional field.
C9_OptionalFiltersApplied ==
  op # "none" =>
    LET Matches(r) == MatchesOptional(r, filter)
    IN res \in ResultsOf(op, SelectSeq(TableOf(op), Matches), filter, limit)

\* The instant a row was recorded at, and the range as the claim words it: at
\* or after midnight of startDate, strictly before midnight of the day after
\* endDate.
EventTime(r) == IF "event_time" \in DOMAIN r THEN r.event_time ELSE r.timestamp
InWholeDays(r, f) ==
  /\ EventTime(r) >= f.startDate * TicksPerDay
  /\ EventTime(r) < (f.endDate + 1) * TicksPerDay

\* C10: the date range of every read operation takes in the whole end date: the
\* result of a call is a result of the call, with the range opened to all days,
\* over exactly the rows from midnight of startDate up to, not including,
\* midnight of the day after endDate; getOverview's totalEvents is their number.
C10_WholeEndDate ==
  op # "none" =>
    LET InDays(r) == InWholeDays(r, filter)
        T == TableOf(op)
        open == [filter EXCEPT !.startDate = 0, !.endDate = NumDays - 1]
    IN /\ res \in ResultsOf(op, SelectSeq(T, InDays), open, limit)
       /\ op \in {"dsql.getOverview", "ch.getOverview"} =>
            res.totalEvents =
              Cardinality({i \in DOMAIN T : /\ T[i].project_id = filter.projectId
                                            /\ InDays(T[i])})

\* C10 witness: getOverview up to day 0 over a table with a row at the last
\* instant of day 0 and a row at the next midnight counted the first only.
C10_Witness ==
  /\ op = "dsql.getOverview"
  /\ filter.startDate = 0 /\ filter.endDate = 0
  /\ Len(events) = 2
  /\ events[1].project_id = "p1" /\ events[1].event_time = LastTick(0)
  /\ events[2].project_id = "p1" /\ events[2].event_time = FirstTick(1)
  /\ res.totalEvents = 1

\* A call whose filter carries no optional field: its filtered row set is the
\* rows of the project within the whole days of the range.
PlainFilter(f) ==
  /\ f.eventType = NULL /\ f.userId = NULL /\ f.sessionId = NULL
  /\ f.pagePath = NULL /\ f.country = NULL
Filtered(T, f) ==
  {i \in DOMAIN T : /\ T[i].project_id = f.projectId
                    /\ InWholeDays(T[i], f)
                    /\ MatchesOptional(T[i], f)}

\* C11: getOverview of either adapter, over the filtered row set: totalEvents
\* is the number of rows, totalPageviews the number of 'pageview' rows,
\* uniqueSessions, uniqueVisitors and uniqueUsers the numbers of distinct
\* non-null sessionId, anonymousId and userId; over no row all five are 0.
C11_OverviewCounts ==
  (op \in {"dsql.getOverview", "ch.getOverview"} /\ PlainFilter(filter)) =>
    LET T == TableOf(op)
        F == Filtered(T, filter)
    IN /\ res.totalEvents = Cardinality(F)
       /\ res.totalPageviews = Cardinality({i \in F : T[i].event_type = "pageview"})
       /\ res.uniqueSessions = Cardinality({T[i].session_id : i \in F} \ {NULL})
       /\ res.uniqueVisitors = Cardinality({T[i].anonymous_id : i \in F} \ {NULL})
       /\ res.uniqueUsers = Cardinality({T[i].user_id : i \in F} \ {NULL})
       /\ F = {} => res = [totalEvents |-> 0, totalPageviews |-> 0,
                           uniqueSessions |-> 0, uniqueVisitors |-> 0,
                           uniqueUsers |-> 0]

\* C11 witness: getOverview over two rows in range, one of them without a
\* userId, counted two events and one user.
C11_Witness ==
  /\ op = "dsql.getOverview"
  /\ PlainFilter(filter)
  /\ Len(events) = 2
  /\ events[1].user_id # NULL /\ events[2].user_id = NULL
  /\ res.totalEvents = 2
  /\ res.uniqueUsers = 1

\* C12: getPageViews returns groups of 'pageview' rows by pagePath, at most
\* `limit` of them, by view count descending, and the order among equal counts
\* is determined: every call over the same table with the same filter and
\* limit returns the same sequence.
C12_PageViewsDeterministic ==
  (op \in {"dsql.getPageViews", "ch.getPageViews"} /\ PlainFilter(filter)) =>
    LET T == TableOf(op)
        F == {i \in Filtered(T, filter) : T[i].event_type = "pageview"}
    IN /\ Len(res) <= limit
       /\ \A j \in DOMAIN res :
            res[j].pageviews = Cardinality({i \in F : T[i].page_path = res[j].path})
       /\ \A j \in 1..(Len(res) - 1) : res[j].pageviews >= res[j + 1].pageviews
       /\ \A other \in ResultsOf(op, T, filter, limit) : other = res

\* The hostname of a referrer URL: the host, without scheme, port and path.
Hostname(url) ==
  CASE url = "https://g.com/a" -> "g.com"
    [] url = "https://g.com/b" -> "g.com"
    [] url = "http://t.co:80/x" -> "t.co"
    [] url = "http://t.co/y" -> "t.co"

\* C13: getReferrers groups the filtered pageview rows by the hostname of
\* pageReferrer: one group per hostname (up to `limit` groups), whose visits
\* are the rows with a non-empty, non-null referrer of that hostname; referrers
\* of one host with different paths share a group, and empty or null referrers
\* have none.
C13_ReferrersByHostname ==
  (op \in {"dsql.getReferrers", "ch.getReferrers"} /\ PlainFilter(filter)) =>
    LET T == TableOf(op)
        F == {i \in Filtered(T, filter) : /\ T[i].event_type = "pageview"
                                          /\ T[i].page_referrer \notin {NULL, ""}}
        H == {Hostname(T[i].page_referrer) : i \in F}
    IN /\ \A j \in DOMAIN res :
            /\ res[j].referrerDomain \in H
            /\ res[j].visits =
                 Cardinality({i \in F :
                                Hostname(T[i].page_referrer) = res[j].referrerDomain})
       /\ \A j, jj \in DOMAIN res :
            j # jj => res[j].referrerDomain # res[jj].referrerDomain
       /\ Len(res) = IF Cardinality(H) < limit THEN Cardinality(H) ELSE limit

\* The start of the hour or the day an instant lies in.
Bucket(gran, t) == t - (t % (IF gran = "hour" THEN TicksPerHour ELSE TicksPerDay))

\* C14: getTimeSeries returns exactly one point per non-empty bucket (hour or
\* day of eventTime) of the filtered rows, in strictly ascending time order,
\* and the events, pageviews, uniqueSessions and uniqueVisitors of a point are
\* those of the rows of its bucket.
C14_TimeSeriesBuckets ==
  (op \in {"dsql.getTimeSeries", "ch.getTimeSeries"} /\ PlainFilter(filter)) =>
    LET T == TableOf(op)
        F == Filtered(T, filter)
        B(i) == Bucket(limit, EventTime(T[i]))
        In(j) == {i \in F : B(i) = res[j].time}
    IN /\ {res[j].time : j \in DOMAIN res} = {B(i) : i \in F}
       /\ Len(res) = Cardinality({B(i) : i \in F})
       /\ \A j \in 1..(Len(res) - 1) : res[j].time < res[j + 1].time
       /\ \A j \in DOMAIN res :
            /\ res[j].events = Cardinality(In(j))
            /\ res[j].pageviews =
                 Cardinality({i \in In(j) : T[i].event_type = "pageview"})
            /\ res[j].uniqueSessions =
                 Cardinality({T[i].session_id : i \in In(j)} \ {NULL})
            /\ res[j].uniqueVisitors =
                 Cardinality({T[i].anonymous_id : i \in In(j)} \ {NULL})

\* C14 witness: a series by day over events on two calendar days has two
\* points, the earlier day first.
C14_Witness ==
  /\ op = "dsql.getTimeSeries"
  /\ limit = "day"
  /\ PlainFilter(filter)
  /\ Len(res) = 2
  /\ res[1].time = FirstTick(0) /\ res[1].events = 1
  /\ res[2].time = FirstTick(1) /\ res[2].events = 1

\* The properties of a stored web vital as the client sent them: the metric
\* name, the rating, and the value, a number.
VitalProps(r) ==
  IF "event_time" \in DOMAIN r THEN r.properties[1] ELSE JSONParse(r.properties[1])
VitalText(r, key) == AsString(Prop(VitalProps(r), key))
VitalValue(r) ==
  LET v == Prop(VitalProps(r), "value")[1]
  IN IF v[1] = "num" THEN v[2] ELSE ParseNumber(v[2])[1]

\* C15: getWebVitals looks at 'webvital' rows only and returns one entry per
\* metric name found in their properties; an entry's goodCount,
\* needsImprovementCount and poorCount are the numbers of the metric's rows
\* with that rating, and p50 <= p75 <= p95 <= p99 lie between the smallest and
\* the largest value of the metric (percentiles are held times 100).
C15_WebVitalsPerMetric ==
  (op \in {"dsql.getWebVitals", "ch.getWebVitals"} /\ PlainFilter(filter)) =>
    LET T == TableOf(op)
        F == {i \in Filtered(T, filter) : T[i].event_type = "webvital"}
        Of(j) == {i \in F : VitalText(T[i], "metric") = res.rows[j].metric}
        Rated(j, x) == Cardinality({i \in Of(j) : VitalText(T[i], "rating") = x})
    IN /\ res.error = "none"
       /\ {res.rows[j].metric : j \in DOMAIN res.rows} =
            {VitalText(T[i], "metric") : i \in F}
       /\ Len(res.rows) = Cardinality({VitalText(T[i], "metric") : i \in F})
       /\ \A j \in DOMAIN res.rows :
            /\ res.rows[j].goodCount = Rated(j, "good")
            /\ res.rows[j].needsImprovementCount = Rated(j, "needs-improvement")
            /\ res.rows[j].poorCount = Rated(j, "poor")
            /\ res.rows[j].p50 <= res.rows[j].p75
            /\ res.rows[j].p75 <= res.rows[j].p95
            /\ res.rows[j].p95 <= res.rows[j].p99
            /\ \E i \in Of(j) : 100 * VitalValue(T[i]) <= res.rows[j].p50
            /\ \E i \in Of(j) : res.rows[j].p99 <= 100 * VitalValue(T[i])

\* The page field X of a raw event as the fallback order resolves it: the
\* context's value when the context has one, else the properties' value, else
\* null.
Resolved(p, X) ==
  IF PageStr(p, X) # NULL THEN PageStr(p, X)
  ELSE IF PropStr(p, X) # NULL THEN PropStr(p, X)
  ELSE NULL

\* C16: the page fields of a normalized row follow the fallback order
\* context.page.X, properties.X, null, for X in url, title, path, referrer: a
\* value present in the context wins, and properties.X is used only when the
\* context has none.
C16_PageFallback ==
  \A j \in 1..Len(databaseEvents) :
    /\ databaseEvents[j].page_url = Resolved(records[1], "url")
    /\ databaseEvents[j].page_title = Resolved(records[1], "title")
    /\ databaseEvents[j].page_path = Resolved(records[1], "path")
    /\ databaseEvents[j].page_referrer = Resolved(records[1], "referrer")

\* C17: the stored properties are the JSON text of the event's properties
\* when these are present and not empty, and null when they are absent or an
\* empty object.
C17_PropertiesOrNull ==
  \A j \in 1..Len(databaseEvents) :
    databaseEvents[j].properties =
      IF records[1].properties = None \/ records[1].properties[1] = << >>
      THEN None
      ELSE Some(JSONStringify(records[1].properties[1]))

C19_SameFailureReachesCaller ==
  (pc = "done" /\ insertCalls = 1 /\ rowFailed # 0) =>
    /\ result = "failure"
    /\ err \in {"fault:insert",
                InsertSqlState(databaseEvents[rowFailed], tableColumns)}

\* The columns whose value is taken from the payload alone.
PayloadColumns == InsertColumns \ {"event_id", "received_at"}
SamePayload(r1, r2) == \A c \in PayloadColumns : r1[c] = r2[c]
\* The table already held a row made from the payload of the j-th added row.
CommittedBefore(j) ==
  \E i \in 1..Len(eventsAtStart) : SamePayload(eventsAtStart[i], Added[j])

IsPrefix(S, T) == Len(S) <= Len(T) /\ SubSeq(T, 1, Len(S)) = S

C22_InvalidRequestRejected ==
  (/\ op = "api.getOverview"
   /\ \/ filter.projectId = NULL
      \/ filter.startDate \notin Days
      \/ filter.endDate \notin Days
      \/ filter.startDate > filter.endDate) =>
    /\ res = ValidationError
    /\ issued = 0

\* A request for a reversed range of two calendar days was rejected, over a
\* table that holds rows.
C22_Witness ==
  /\ op = "api.getOverview"
  /\ filter.projectId = "p1"
  /\ filter.startDate \in Days /\ filter.endDate \in Days
  /\ filter.startDate > filter.endDate
  /\ res = ValidationError
  /\ issued = 0
  /\ Len(events) >= 1

RouteChanges == {"pushState", "replaceState", "popstate"}

\* C23: once the tracker is initialized, a pushState call, a replaceState call
\* or a popstate event sends exactly one pageview, however many times init was
\* called; while it is not initialized, track and trackPageView send nothing.
C23_OnePageviewPerRouteChange ==
  /\ (lastCall.name \in RouteChanges /\ isInitialized) =>
       lastCall.sent = << "pageview" >>
  /\ (lastCall.name \in {"track", "trackPageView"} /\ ~isInitialized) =>
       lastCall.sent = << >>

\* C24: with Do Not Track enabled the tracker is never initialized and hands
\* no event to fetch, whatever is called.
C24_DoNotTrackSendsNothing ==
  doNotTrack => (~isInitialized /\ outbox = << >>)

\* The payloads of the batch that are JSON objects: those that decode and
\* normalize.
IsObject(p) == p.json = "object"

\* C25: an invocation calls insertEvents at most once; while the loop over the
\* batch runs nothing has been passed to storage and the table is as it was;
\* the call is made after the last payload, with one row per payload that
\* decoded and normalized, in order, and only those rows are written.
C25_OneInsertAfterLoop ==
  /\ insertCalls <= 1
  /\ pc = "loop" => (insertCalls = 0 /\ events = eventsAtStart /\ staged = << >>)
  /\ insertCalls = 1 =>
       LET good == SelectSeq(records, IsObject)
           n == Len(databaseEvents)
       IN /\ idx = Len(records) + 1
          /\ n = Len(good)
          /\ \A i \in 1..n :
               /\ databaseEvents[i].project_id = good[i].projectId
               /\ databaseEvents[i].event_type = good[i].eventType
               /\ submitted[Len(submitted) - n + i] = databaseEvents[i].event_id
          /\ Len(staged) <= n /\ Len(Added) <= n
          /\ \A i \in 1..Len(staged) :
               staged[i] = StoredRow(databaseEvents[i], tableColumns)
          /\ \A i \in 1..Len(Added) :
               Added[i] = StoredRow(databaseEvents[i], tableColumns)

\* The insert of a batch that held a payload that was skipped is under way.
C25_Witness ==
  /\ pc = "insert"
  /\ insertCalls = 1
  /\ logged >= 1
  /\ Len(databaseEvents) >= 1

Holding(o) == operations[o].acquired > operations[o].released
Running == {"begin", "insert", "commit", "rollback", "query", "all"}

\* C26: a call of the DSQL adapter acquires at most one connection, holds it
\* while it runs and has released it exactly once when it returns, whether its
\* queries succeeded, one failed or the ROLLBACK failed; however the calls
\* interleave, no more than the pool's 3 connections are checked out, and none
\* is once every call has returned.
C26_AcquireReleaseOnce ==
  /\ \A o \in Calls :
       /\ operations[o].acquired <= 1
       /\ operations[o].released <= operations[o].acquired
       /\ operations[o].pc \in {"none", "connect"} => operations[o].acquired = 0
       /\ operations[o].pc \in Running =>
            /\ Holding(o)
            /\ connections[operations[o].conn].owner = o
       /\ operations[o].pc = "returned" => ~Holding(o)
  /\ Cardinality({o \in Calls : Holding(o)}) <= PoolMax
  /\ Cardinality({c \in 1..PoolMax : connections[c].owner # 0}) =
       Cardinality({o \in Calls : Holding(o)})
  /\ (\A o \in Calls : operations[o].pc \in {"none", "returned"}) =>
       \A c \in 1..PoolMax : connections[c].owner = 0

\* All connections are checked out, by an insert that is rolling back, a read
\* and a getDeviceStats, and a further call waits for one.
C26_Witness ==
  /\ \A c \in 1..PoolMax : connections[c].owner # 0
  /\ \E o \in Calls : operations[o].pc = "connect"
  /\ \E o \in Calls : operations[o].pc = "rollback"
  /\ \E o \in Calls : operations[o].pc = "all"

\* C29: a connection goes back to the pool only when every query sent on it
\* has completed, also when one of getDeviceStats' three queries fails: no
\* connection, idle or handed to another call, has a query of an earlier holder
\* pending on it.
C29_ReleaseAfterAllQueries ==
  \A c \in 1..PoolMax : connections[c].stray = 0

\* C27: getStorage builds the storage adapter at most once in the life of the
\* process: the first call builds it, and every later call, in whatever
\* invocation, finds the module's variable set and returns that adapter.
C27_StorageCreatedOnce ==
  /\ created <= 1
  /\ (created = 0) = (storage = "null")
  /\ insertCalls = 1 => (created = 1 /\ storage = "dsql")

\* A batch that failed was delivered again, and the later invocation called
\* getStorage again.
C27_Witness ==
  /\ created = 1
  /\ insertCalls = 1
  /\ Head(queue).retries > 0

\* C28: a batch whose insert fails is delivered again at most RetryAttempts
\* times, and the records of a batch that still fails are handed to a
\* dead-letter destination; the event source is configured with none, so the
\* claim asks that it never gives a record up.
C28_RetriedThenDeadLettered ==
  /\ \A i \in 1..Len(queue) : queue[i].retries <= RetryAttempts
  /\ discarded = << >>

\* A row that satisfies every constraint the schema declares: project_id,
\* event_type and the two timestamps are there.
MeetsConstraints(e) ==
  /\ e.project_id # NULL
  /\ e.event_type # NULL
  /\ e.event_time.valid
  /\ e.received_at.valid

\* C30: on the events table the schema in the source declares, every column
\* the INSERT names is a column of the table, event_id included, so that an
\* insert of rows that meet every declared constraint, with no failure of the
\* backend, commits all of them.
C30_InsertMatchesSchema ==
  (/\ tableColumns = SchemaColumns
   /\ pc = "done" /\ insertCalls = 1 /\ faults = 0
   /\ \A i \in 1..Len(databaseEvents) : MeetsConstraints(databaseEvents[i])) =>
    /\ InsertColumns \subseteq tableColumns
    /\ err = "none"
    /\ Len(Added) = Len(databaseEvents)

====
